---- MODULE Spec2Model ----
(***************************************************************************)
(* Model of the Pinterest downloader: the media resolver                   *)
(* (app/services/pinterest_resolver.py) and the profile pin collector      *)
(* (app/services/profile_collector.py).                                    *)
(*                                                                         *)
(* Strings that the code inspects character by character (URL paths,       *)
(* hosts, size hints) are sequences of one-character strings, so that the  *)
(* regular expressions and substring tests of the code are computed, not   *)
(* assumed.                                                                *)
(***************************************************************************)
EXTENDS Integers, Sequences, FiniteSets, TLC

None == "None"

(***************************************************************************)
(* Character-level string operations (Python str methods used by the code) *)
(***************************************************************************)
Digits == {"0", "1", "2", "3", "4", "5", "6", "7", "8", "9"}

DigitVal(c) ==
    CASE c = "0" -> 0 [] c = "1" -> 1 [] c = "2" -> 2 [] c = "3" -> 3
      [] c = "4" -> 4 [] c = "5" -> 5 [] c = "6" -> 6 [] c = "7" -> 7
      [] c = "8" -> 8 [] c = "9" -> 9

\* str.isdigit(): non-empty and every character a digit
IsDigitStr(s) == Len(s) > 0 /\ \A i \in 1..Len(s) : s[i] \in Digits

RECURSIVE ToInt(_)
\* int(text) of a digit string
ToInt(s) ==
    IF Len(s) = 0 THEN 0
    ELSE 10 * ToInt(SubSeq(s, 1, Len(s) - 1)) + DigitVal(s[Len(s)])

LowerChar(c) ==
    CASE c = "A" -> "a" [] c = "B" -> "b" [] c = "C" -> "c" [] c = "D" -> "d"
      [] c = "E" -> "e" [] c = "F" -> "f" [] c = "G" -> "g" [] c = "H" -> "h"
      [] c = "I" -> "i" [] c = "J" -> "j" [] c = "K" -> "k" [] c = "L" -> "l"
      [] c = "M" -> "m" [] c = "N" -> "n" [] c = "O" -> "o" [] c = "P" -> "p"
      [] c = "Q" -> "q" [] c = "R" -> "r" [] c = "S" -> "s" [] c = "T" -> "t"
      [] c = "U" -> "u" [] c = "V" -> "v" [] c = "W" -> "w" [] c = "X" -> "x"
      [] c = "Y" -> "y" [] c = "Z" -> "z" [] OTHER -> c

\* str.lower()
Lower(s) == [i \in 1..Len(s) |-> LowerChar(s[i])]

\* sub in s
Contains(s, sub) ==
    \E i \in 1..(Len(s) - Len(sub) + 1) : SubSeq(s, i, i + Len(sub) - 1) = sub

\* s.endswith(suf)
EndsWith(s, suf) ==
    Len(s) >= Len(suf) /\ SubSeq(s, Len(s) - Len(suf) + 1, Len(s)) = suf

\* index of the first / last occurrence of character c in s, 0 when absent
FirstIndex(s, c) ==
    IF \E i \in 1..Len(s) : s[i] = c
    THEN CHOOSE i \in 1..Len(s) : s[i] = c /\ \A j \in 1..(i - 1) : s[j] # c
    ELSE 0

LastIndex(s, c) ==
    IF \E i \in 1..Len(s) : s[i] = c
    THEN CHOOSE i \in 1..Len(s) : s[i] = c /\ \A j \in (i + 1)..Len(s) : s[j] # c
    ELSE 0

RECURSIVE SplitSlash(_)
SplitAt(s, i) ==
    IF i = 0 THEN <<s>>
    ELSE <<SubSeq(s, 1, i - 1)>> \o SplitSlash(SubSeq(s, i + 1, Len(s)))

\* s.split("/")
SplitSlash(s) == SplitAt(s, FirstIndex(s, "/"))

\* [segment for segment in path.split("/") if segment]
Segments(path) == SelectSeq(SplitSlash(path), LAMBDA seg : Len(seg) > 0)

RECURSIVE JoinSlash(_)
\* "/".join(segments)
JoinSlash(segs) ==
    IF Len(segs) = 0 THEN <<>>
    ELSE IF Len(segs) = 1 THEN segs[1]
    ELSE segs[1] \o <<"/">> \o JoinSlash(Tail(segs))

\* the suffix of a file name: from its last dot, unless that dot comes first or last
NameSuffix(name, i) == IF i > 1 /\ i < Len(name) THEN SubSeq(name, i, Len(name)) ELSE <<>>

LastSegmentSuffix(segs) ==
    IF Len(segs) = 0 THEN <<>>
    ELSE NameSuffix(segs[Len(segs)], LastIndex(segs[Len(segs)], "."))

\* pathlib.Path(path).suffix: the last ".ext" of the final path component
PathSuffix(path) == LastSegmentSuffix(Segments(path))

(***************************************************************************)
(* app/constants.py, app/utils/media.py                                    *)
(***************************************************************************)
PINTEREST_IMAGE_HOST == <<"i",".","p","i","n","i","m","g",".","c","o","m">>

IMAGE_EXTENSIONS ==
    { <<".","j","p","g">>, <<".","j","p","e","g">>, <<".","p","n","g">>, <<".","w","e","b","p">>, <<".","g","i","f">>, <<".","b","m","p">>, <<".","t","i","f">>, <<".","t","i","f","f">>, <<".","a","v","i","f">> }

VIDEO_EXTENSIONS ==
    { <<".","m","p","4">>, <<".","m","o","v">>, <<".","w","e","b","m">>, <<".","m","4","v">>, <<".","a","v","i">>, <<".","m","k","v">>, <<".","3","g","p">> }

NON_MEDIA_EXTENSIONS ==
    { <<".","w","o","f","f">>, <<".","w","o","f","f","2">>, <<".","t","t","f">>, <<".","o","t","f">>, <<".","e","o","t">>, <<".","c","s","s">>, <<".","j","s">> }

\* SIZE_SEGMENT_RE = ^\d+x\d*$ : digits, "x", optional digits
SizeSegmentMatch(seg) ==
    /\ FirstIndex(seg, "x") > 1
    /\ IsDigitStr(SubSeq(seg, 1, FirstIndex(seg, "x") - 1))
    /\ \A j \in (FirstIndex(seg, "x") + 1)..Len(seg) : seg[j] \in Digits

\* infer_media_type_from_url, given path = parsed.path.lower(), its suffix, its
\* non-empty segments and netloc = parsed.netloc.lower()
InferFromParts(path, suffix, segs, netloc) ==
    IF suffix \in NON_MEDIA_EXTENSIONS THEN None
    ELSE IF suffix \in IMAGE_EXTENSIONS THEN "image"
    ELSE IF suffix \in VIDEO_EXTENSIONS \/ Contains(path, <<"/","v","i","d","e","o","s","/">>) THEN "video"
    ELSE IF Contains(netloc, <<"p","i","n","i","m","g",".","c","o","m">>)
         THEN IF Len(segs) = 0 THEN None
              ELSE IF segs[1] = <<"o","r","i","g","i","n","a","l","s">> \/ SizeSegmentMatch(segs[1]) THEN "image"
              ELSE IF EndsWith(segs[1], <<"x","_","r","s">>) /\ suffix \in IMAGE_EXTENSIONS
                   THEN "image"
              ELSE None
    ELSE None

\* infer_media_type_from_url
InferMediaType(url) ==
    InferFromParts(Lower(url.path), PathSuffix(Lower(url.path)),
                   Segments(Lower(url.path)), Lower(url.netloc))

(***************************************************************************)
(* app/services/pinterest_resolver.py: scoring, variants, ranking          *)
(***************************************************************************)
IMAGE_BASE_SCORE == 1000
ORIGINALS_BONUS == 9000
SHARE_IMAGE_PENALTY == 6000
IMAGES_PATH_PENALTY == 3000
PINIMG_HOST_BONUS == 300
VIDEO_BASE_SCORE == 20000
MP4_BONUS == 500
M3U8_PENALTY == 300
HLS_PENALTY == 150

\* _is_pinimg_host
IsPinimgHost(host) ==
    Lower(host) = PINTEREST_IMAGE_HOST \/ EndsWith(Lower(host), <<".","p","i","n","i","m","g",".","c","o","m">>)

PlaceholderPath(path) ==
    \/ Contains(path, <<"f","a","c","e","b","o","o","k","_","s","h","a","r","e","_","i","m","a","g","e">>)
    \/ Contains(path, <<"/","i","m","a","g","e","s","/">>) /\ ~Contains(path, <<"/","o","r","i","g","i","n","a","l","s","/">>)

\* _is_placeholder_image
IsPlaceholderImage(url) == PlaceholderPath(Lower(url.path))

AppendNew(front, last) ==
    IF \E i \in 1..Len(front) : front[i] = last THEN front ELSE Append(front, last)

\* _dedupe_url_list
RECURSIVE DedupeUrlList(_)
DedupeUrlList(values) ==
    IF Len(values) = 0 THEN <<>>
    ELSE AppendNew(DedupeUrlList(SubSeq(values, 1, Len(values) - 1)), values[Len(values)])

\* _pinimg_variants as it would be if the originals rewrite replaced the URL
VariantsOriginalsOnly(url, segs) ==
    IF ~IsPinimgHost(url.netloc) THEN <<url>>
    ELSE IF Len(segs) = 0 THEN <<url>>
    ELSE IF segs[1] # <<"o","r","i","g","i","n","a","l","s">> /\ SizeSegmentMatch(segs[1])
         THEN << [url EXCEPT !.path =
                     <<"/">> \o JoinSlash(<<<<"o","r","i","g","i","n","a","l","s">>>> \o Tail(segs))] >>
         ELSE <<url>>

\* _pinimg_variants, given segments = the non-empty segments of the path: the
\* originals rewrite is inserted before the URL itself
VariantsFromSegments(url, segs) ==
    IF ~IsPinimgHost(url.netloc) THEN <<url>>
    ELSE IF Len(segs) = 0 THEN <<url>>
    ELSE IF segs[1] # <<"o","r","i","g","i","n","a","l","s">> /\ SizeSegmentMatch(segs[1])
         THEN DedupeUrlList(
                  << [url EXCEPT !.path =
                          <<"/">> \o JoinSlash(<<<<"o","r","i","g","i","n","a","l","s">>>> \o Tail(segs))],
                     url >>)
         ELSE DedupeUrlList(<<url>>)

\* _pinimg_variants
PinimgVariants(url) == VariantsFromSegments(url, Segments(url.path))

\* width + height of a <W>x<H> segment; a missing height counts as the width
SizeSum(wtext, htext) ==
    (IF IsDigitStr(wtext) THEN ToInt(wtext) ELSE 0)
    + (IF IsDigitStr(htext) THEN ToInt(htext)
       ELSE IF IsDigitStr(wtext) THEN ToInt(wtext) ELSE 0)

\* segments[0].partition("x") of a segment that matches SIZE_SEGMENT_RE
SegmentSize(seg) ==
    SizeSum(SubSeq(seg, 1, FirstIndex(seg, "x") - 1),
            SubSeq(seg, FirstIndex(seg, "x") + 1, Len(seg)))

\* _score_image, given path = urlparse(url).path.lower() and its segments
ScoreImageParts(path, segs, netloc, size_hint) ==
    IMAGE_BASE_SCORE
    + (IF Contains(path, <<"/","o","r","i","g","i","n","a","l","s","/">>) \/ Lower(size_hint) = <<"o","r","i","g">>
       THEN ORIGINALS_BONUS ELSE 0)
    + (IF Len(segs) > 0 /\ SizeSegmentMatch(segs[1]) THEN SegmentSize(segs[1]) ELSE 0)
    - (IF Contains(path, <<"7","5","x","7","5","_","r","s">>) \/ Contains(path, <<"f","a","c","e","b","o","o","k","_","s","h","a","r","e","_","i","m","a","g","e">>)
       THEN SHARE_IMAGE_PENALTY ELSE 0)
    - (IF Contains(path, <<"/","i","m","a","g","e","s","/">>) /\ ~Contains(path, <<"/","o","r","i","g","i","n","a","l","s","/">>)
       THEN IMAGES_PATH_PENALTY ELSE 0)
    + (IF IsPinimgHost(netloc) THEN PINIMG_HOST_BONUS ELSE 0)

\* _score_image
ScoreImage(url, size_hint) ==
    ScoreImageParts(Lower(url.path), Segments(Lower(url.path)), url.netloc, size_hint)

\* VIDEO_RESOLUTION_RE = /(\d{3,4})p(?:/|$) : the first path component that is
\* three or four digits followed by "p"
IsResolutionSegment(seg) ==
    /\ Len(seg) \in {4, 5}
    /\ seg[Len(seg)] = "p"
    /\ IsDigitStr(SubSeq(seg, 1, Len(seg) - 1))

FirstResolution(parts, hits) ==
    IF hits = {} THEN 0
    ELSE ToInt(SubSeq(parts[CHOOSE i \in hits : \A j \in hits : i <= j], 1,
                      Len(parts[CHOOSE i \in hits : \A j \in hits : i <= j]) - 1))

VideoResolution(path) ==
    FirstResolution(Tail(SplitSlash(path)),
                    {i \in 1..Len(Tail(SplitSlash(path))) :
                        IsResolutionSegment(Tail(SplitSlash(path))[i])})

\* re.sub(r"\D", "", size_hint)
OnlyDigits(s) == SelectSeq(s, LAMBDA c : c \in Digits)

\* _score_video, given path = urlparse(url).path.lower()
ScoreVideoParts(path, size_hint) ==
    VIDEO_BASE_SCORE
    + VideoResolution(path)
    + (IF EndsWith(path, <<".","m","p","4">>) THEN MP4_BONUS ELSE 0)
    - (IF EndsWith(path, <<".","m","3","u","8">>) THEN M3U8_PENALTY ELSE 0)
    - (IF Contains(path, <<"h","l","s">>) THEN HLS_PENALTY ELSE 0)
    + (IF Len(size_hint) > 0 /\ EndsWith(Lower(size_hint), <<"p">>)
          /\ IsDigitStr(OnlyDigits(size_hint))
       THEN ToInt(OnlyDigits(size_hint)) ELSE 0)

\* _score_video
ScoreVideo(url, size_hint) == ScoreVideoParts(Lower(url.path), size_hint)

\* MediaCandidate
MediaCandidate(url, media_type, quality_score, source) ==
    [url |-> url, media_type |-> media_type, quality_score |-> quality_score,
     source |-> source]

ImageCandidates(variants, source, size_hint) ==
    [i \in 1..Len(variants) |->
        MediaCandidate(variants[i], "image", ScoreImage(variants[i], size_hint), source)]

\* _build_candidates
BuildCandidates(url, media_type, source, size_hint) ==
    IF media_type = "image" THEN ImageCandidates(PinimgVariants(url), source, size_hint)
    ELSE << MediaCandidate(url, "video", ScoreVideo(url, size_hint), source) >>

\* the by_key loop as it would be without the score comparison of line 558:
\* the candidate seen first stays
ByKeyPutKeepsFirst(front, item, same) ==
    IF same = {} THEN Append(front, item) ELSE front

\* one step of the by_key loop of _sort_and_dedupe: same is the set of
\* positions that hold the item's (media_type, url)
ByKeyPut(front, item, same) ==
    IF same = {} THEN Append(front, item)
    ELSE IF item.quality_score > front[CHOOSE i \in same : TRUE].quality_score
         THEN [front EXCEPT ![CHOOSE i \in same : TRUE] = item]
         ELSE front

ByKeyStep(front, item) ==
    ByKeyPut(front, item,
             {i \in 1..Len(front) :
                 front[i].media_type = item.media_type /\ front[i].url = item.url})

\* the dict by_key of _sort_and_dedupe: one entry per (media_type, url), in
\* first-insertion order, replaced in place by a strictly higher score
RECURSIVE ByKey(_)
ByKey(candidates) ==
    IF Len(candidates) = 0 THEN <<>>
    ELSE ByKeyStep(ByKey(SubSeq(candidates, 1, Len(candidates) - 1)),
                   candidates[Len(candidates)])

InsertAt(front, item, k) ==
    SubSeq(front, 1, k) \o <<item>> \o SubSeq(front, k + 1, Len(front))

\* an item goes behind every item whose score is at least its own
InsertByScoreDesc(front, item) ==
    InsertAt(front, item,
             Cardinality({i \in 1..Len(front) :
                             front[i].quality_score >= item.quality_score}))

\* list.sort(key=quality_score, reverse=True): stable, equal scores keep order
RECURSIVE SortByScoreDesc(_)
SortByScoreDesc(items) ==
    IF Len(items) = 0 THEN <<>>
    ELSE InsertByScoreDesc(SortByScoreDesc(SubSeq(items, 1, Len(items) - 1)),
                           items[Len(items)])

\* _sort_and_dedupe
SortAndDedupe(candidates) == SortByScoreDesc(ByKey(candidates))
(***************************************************************************)
(* URLs as urlparse() sees them, and the values found in pages and JSON    *)
(***************************************************************************)
\* scheme, netloc and path as urlparse() gives them; query and fragment are
\* empty in every URL the model builds
Url(scheme, netloc, path) ==
    [scheme |-> scheme, netloc |-> netloc, path |-> path, query |-> <<>>, fragment |-> <<>>]

NoUrl == Url("", <<>>, <<>>)

\* is_valid_http_url
IsValidHttpUrl(url) == url.scheme \in {"http", "https"} /\ Len(url.netloc) > 0

\* A string found in a page or a JSON payload.  kind "url": a literal absolute
\* URL; "escaped": the same with \/ for every slash; "text": a string holding
\* neither "http" nor "\/"; "blank": an empty or all-blank string.
Raw(kind, url, text) == [kind |-> kind, url |-> url, text |-> text]
RawUrl(url) == Raw("url", url, <<>>)
RawEscaped(url) == Raw("escaped", url, <<>>)
RawText(text) == Raw("text", NoUrl, text)
RawBlank == Raw("blank", NoUrl, <<>>)

\* JSON values: t is "dict" (items: key/value pairs in document order),
\* "list" (items: key/value pairs with empty keys), "str", "null", "true",
\* "false" or "number"
Json(t, items, raw) == [t |-> t, items |-> items, raw |-> raw]
KV(k, v) == [k |-> k, v |-> v]
JDict(items) == Json("dict", items, RawBlank)
JList(values) == Json("list", [i \in 1..Len(values) |-> KV(<<>>, values[i])], RawBlank)
JStr(raw) == Json("str", <<>>, raw)
JNull == Json("null", <<>>, RawBlank)
JTrue == Json("true", <<>>, RawBlank)
JFalse == Json("false", <<>>, RawBlank)

\* dict.get(key): the value of the last pair with that key, else None
DictGet(d, key) ==
    LET hits == {i \in 1..Len(d.items) : d.items[i].k = key} IN
    IF hits = {} THEN JNull
    ELSE d.items[CHOOSE i \in hits : \A j \in hits : j <= i].v

\* bool(value) of a JSON value
Truthy(v) ==
    CASE v.t \in {"dict", "list"} -> Len(v.items) > 0
      [] v.t = "str" -> v.raw.kind # "blank" \/ Len(v.raw.text) > 0
      [] v.t \in {"true", "number"} -> TRUE
      [] OTHER -> FALSE

\* _normalize_candidate on such a string: a blank string gives None; an
\* absolute URL, escaped or not, is unescaped and survives urljoin unchanged
NormalizeCandidate(raw) ==
    IF raw.kind \in {"url", "escaped"} /\ IsValidHttpUrl(raw.url) THEN raw.url ELSE NoUrl

\* the digits that start at position s of a text
DigitRun(text, s) ==
    SubSeq(text, s,
           CHOOSE e \in s..Len(text) :
              /\ \A j \in s..e : text[j] \in Digits
              /\ (e = Len(text) \/ text[e + 1] \notin Digits))

FirstDigitRun(text, starts, skip) ==
    IF starts = {} THEN <<>>
    ELSE DigitRun(text, (CHOOSE i \in starts : \A j \in starts : i <= j) + skip)

\* PIN_ID_PATH_RE = /pin/(\d+)/? searched in a text: the digits after the
\* first "/pin/" that is followed by a digit
ExtractPinId(text) ==
    FirstDigitRun(text,
                  {i \in 1..Len(text) :
                      /\ i + 5 <= Len(text)
                      /\ SubSeq(text, i, i + 4) = <<"/","p","i","n","/">>
                      /\ text[i + 5] \in Digits},
                  5)

\* OEMBED_PIN_ID_RE = [?&]id=(\d+)
ExtractOembedId(text) ==
    FirstDigitRun(text,
                  {i \in 1..Len(text) :
                      /\ i + 4 <= Len(text)
                      /\ text[i] \in {"?", "&"}
                      /\ SubSeq(text, i + 1, i + 3) = <<"i","d","=">>
                      /\ text[i + 4] \in Digits},
                  4)

(***************************************************************************)
(* Candidate extraction.  Every extraction yields the list the code        *)
(* returns (candidates) and the set of all candidates it built on the way  *)
(* (built), which the code drops and the properties refer to.              *)
(***************************************************************************)
Range(seq) == {seq[i] : i \in 1..Len(seq)}

Harvest(candidates, built) == [candidates |-> candidates, built |-> built]

NoHarvest == Harvest(<<>>, {})

\* a list of freshly built candidates
Built(list) == Harvest(list, Range(list))

\* extending one list by another
Extend(h1, h2) == Harvest(h1.candidates \o h2.candidates, h1.built \cup h2.built)

\* return self._sort_and_dedupe(candidates)
Deduped(h) == Harvest(SortAndDedupe(h.candidates), h.built)

\* a URL whose media type is inferred from the URL: no candidate without a
\* type, with a type other than the one asked for, or for a placeholder image
\* (walk(), the oEmbed loop and the HOSTED_MEDIA_PATTERN loop)
TypedCandidates(normalized, media_type, key_hint, source, media_type_hint) ==
    IF normalized = NoUrl THEN <<>>
    ELSE IF media_type = None THEN <<>>
    ELSE IF media_type_hint # None /\ media_type # media_type_hint THEN <<>>
    ELSE IF media_type = "image" /\ IsPlaceholderImage(normalized) THEN <<>>
    ELSE BuildCandidates(normalized, media_type, source, key_hint)

\* a URL taken as an image whatever it looks like, unless it is a placeholder
\* (the images loop and the META_IMAGE_PATTERNS loop)
ImageCandidate(normalized, source, size_hint) ==
    IF normalized # NoUrl /\ ~IsPlaceholderImage(normalized)
    THEN BuildCandidates(normalized, "image", source, size_hint) ELSE <<>>

RECURSIVE Walk(_, _, _, _)
RECURSIVE WalkItems(_, _, _, _, _)
\* walk() of _extract_candidates_from_object: every candidate built, in
\* document order
Walk(value, key_hint, source, media_type_hint) ==
    IF value.t = "dict" THEN WalkItems(value.items, TRUE, key_hint, source, media_type_hint)
    ELSE IF value.t = "list"
         THEN WalkItems(value.items, FALSE, key_hint, source, media_type_hint)
    ELSE IF value.t # "str" THEN <<>>
    ELSE IF value.raw.kind \notin {"url", "escaped"} THEN <<>>
    ELSE TypedCandidates(NormalizeCandidate(value.raw),
                         InferMediaType(NormalizeCandidate(value.raw)),
                         key_hint, source, media_type_hint)

WalkItems(items, use_keys, key_hint, source, media_type_hint) ==
    IF Len(items) = 0 THEN <<>>
    ELSE Walk(items[1].v, IF use_keys THEN items[1].k ELSE key_hint, source,
              media_type_hint)
         \o WalkItems(Tail(items), use_keys, key_hint, source, media_type_hint)

\* _extract_candidates_from_object
ExtractCandidatesFromObject(payload, source, media_type_hint) ==
    Deduped(Built(Walk(payload, <<>>, source, media_type_hint)))

\* a subtree to walk, or to skip when run is FALSE
Job(run, payload, source, media_type_hint) ==
    [run |-> run, payload |-> payload, source |-> source,
     media_type_hint |-> media_type_hint]

RECURSIVE WalkJobs(_)
\* candidates.extend(self._extract_candidates_from_object(...)) for each job
WalkJobs(jobs) ==
    IF Len(jobs) = 0 THEN NoHarvest
    ELSE Extend(IF jobs[1].run
                THEN ExtractCandidatesFromObject(jobs[1].payload, jobs[1].source,
                                                 jobs[1].media_type_hint)
                ELSE NoHarvest,
                WalkJobs(Tail(jobs)))

RECURSIVE ApiImages(_)
\* the images loop of _fetch_pin_api_candidates
ApiImages(items) ==
    IF Len(items) = 0 THEN <<>>
    ELSE (IF items[1].v.t = "dict" /\ DictGet(items[1].v, <<"u","r","l">>).t = "str"
          THEN ImageCandidate(NormalizeCandidate(DictGet(items[1].v, <<"u","r","l">>).raw),
                              "api-images", items[1].k)
          ELSE <<>>)
         \o ApiImages(Tail(items))

\* lines 191-221: videos and story_pin_data are walked when present, and all
\* of pin_data when is_video is set
ApiJobs(pin_data) ==
    << Job(DictGet(pin_data, <<"v","i","d","e","o","s">>).t # "null", DictGet(pin_data, <<"v","i","d","e","o","s">>),
           "api-videos", "video"),
       Job(DictGet(pin_data, <<"s","t","o","r","y","_","p","i","n","_","d","a","t","a">>).t # "null",
           DictGet(pin_data, <<"s","t","o","r","y","_","p","i","n","_","d","a","t","a">>), "api-story", None),
       Job(Truthy(DictGet(pin_data, <<"i","s","_","v","i","d","e","o">>)), pin_data, "api-fallback", "video") >>

\* the list `candidates` of _fetch_pin_api_candidates for one pin_data dict
ApiCandidateList(pin_data) ==
    Extend(Built(IF DictGet(pin_data, <<"i","m","a","g","e","s">>).t = "dict"
                 THEN ApiImages(DictGet(pin_data, <<"i","m","a","g","e","s">>).items) ELSE <<>>),
           WalkJobs(ApiJobs(pin_data)))

\* An HTTP answer to a JSON endpoint: kind "error" (connection error, error
\* status, or a body that is not JSON) or "json" with the decoded payload
Answer(kind, payload) == [kind |-> kind, payload |-> payload]

Outcome(error, harvest) ==
    [error |-> error, candidates |-> harvest.candidates, built |-> harvest.built]

\* data[0] of the payload when it is a dict, else null
FirstPinData(data) ==
    IF data.t # "list" \/ Len(data.items) = 0 THEN JNull
    ELSE IF data.items[1].v.t # "dict" THEN JNull
    ELSE data.items[1].v

\* _fetch_pin_api_candidates; payload.get on a payload that is not a dict
\* raises AttributeError
FetchPinApiCandidates(answer) ==
    IF answer.kind = "error" THEN Outcome("", NoHarvest)
    ELSE IF answer.payload.t # "dict" THEN Outcome("AttributeError", NoHarvest)
    ELSE IF FirstPinData(DictGet(answer.payload, <<"d","a","t","a">>)) = JNull
         THEN Outcome("", NoHarvest)
    ELSE Outcome("", Deduped(ApiCandidateList(
                         FirstPinData(DictGet(answer.payload, <<"d","a","t","a">>)))))

RECURSIVE OembedKeys(_, _)
\* the loop over ("thumbnail_url", "url") of _fetch_oembed_media_candidates
OembedKeys(payload, keys) ==
    IF Len(keys) = 0 THEN <<>>
    ELSE (IF DictGet(payload, keys[1].k).t = "str"
          THEN TypedCandidates(
                   NormalizeCandidate(DictGet(payload, keys[1].k).raw),
                   InferMediaType(NormalizeCandidate(DictGet(payload, keys[1].k).raw)),
                   keys[1].k, keys[1].v, None)
          ELSE <<>>)
         \o OembedKeys(payload, Tail(keys))

OEMBED_KEYS ==
    << KV(<<"t","h","u","m","b","n","a","i","l","_","u","r","l">>, "oembed-thumbnail_url"), KV(<<"u","r","l">>, "oembed-url") >>

\* _fetch_oembed_media_candidates
FetchOembedMediaCandidates(answer) ==
    IF answer.kind = "error" THEN Outcome("", NoHarvest)
    ELSE IF answer.payload.t # "dict" THEN Outcome("AttributeError", NoHarvest)
    ELSE Outcome("", Deduped(Built(OembedKeys(answer.payload, OEMBED_KEYS))))

PinIdOutcome(error, pin_id) == [error |-> error, pin_id |-> pin_id]

\* _resolve_pin_id_via_oembed
ResolvePinIdViaOembed(answer) ==
    IF answer.kind = "error" THEN PinIdOutcome("", <<>>)
    ELSE IF answer.payload.t # "dict" THEN PinIdOutcome("AttributeError", <<>>)
    ELSE IF DictGet(answer.payload, <<"h","t","m","l">>).t = "str"
            /\ DictGet(answer.payload, <<"h","t","m","l">>).raw.kind = "text"
         THEN PinIdOutcome("", ExtractOembedId(DictGet(answer.payload, <<"h","t","m","l">>).raw.text))
    ELSE PinIdOutcome("", <<>>)

\* A fetched page: the matches of the three META_IMAGE_PATTERNS in pattern
\* order, the application/ld+json blocks (parsed is FALSE when json.loads
\* fails), the matches of HOSTED_MEDIA_PATTERN, and the text around the first
\* /pin/<digits>/ reference
Body(pin_text, meta, ldjson, hosted) ==
    [pin_text |-> pin_text, meta |-> meta, ldjson |-> ldjson, hosted |-> hosted]

LdBlock(parsed, payload) == [parsed |-> parsed, payload |-> payload]

RECURSIVE MetaCandidates(_)
\* the META_IMAGE_PATTERNS loop of _extract_html_candidates
MetaCandidates(matches) ==
    IF Len(matches) = 0 THEN <<>>
    ELSE ImageCandidate(NormalizeCandidate(matches[1]), "meta", <<"m","e","t","a">>)
         \o MetaCandidates(Tail(matches))

\* the ld+json blocks that json.loads accepts
LdJobs(blocks) ==
    [i \in 1..Len(blocks) |-> Job(blocks[i].parsed, blocks[i].payload, "ldjson", None)]

\* _extract_ldjson_candidates
ExtractLdjsonCandidates(blocks) == Deduped(WalkJobs(LdJobs(blocks)))

RECURSIVE HostedCandidates(_)
\* the HOSTED_MEDIA_PATTERN loop of _extract_html_candidates
HostedCandidates(matches) ==
    IF Len(matches) = 0 THEN <<>>
    ELSE TypedCandidates(NormalizeCandidate(matches[1]),
                         InferMediaType(NormalizeCandidate(matches[1])),
                         <<>>, "html-regex", None)
         \o HostedCandidates(Tail(matches))

\* lines 245-268 of _extract_html_candidates: the broad scan runs only when
\* meta tags and structured data gave nothing
HtmlOrHosted(candidates, hosted) ==
    IF Len(candidates.candidates) > 0 THEN Deduped(candidates)
    ELSE Deduped(Extend(candidates, Built(HostedCandidates(hosted))))

\* _extract_html_candidates, given the outcome of _extract_ldjson_candidates
ExtractHtmlCandidates(body, ldjson_candidates) ==
    HtmlOrHosted(Extend(Built(MetaCandidates(body.meta)), ldjson_candidates),
                 body.hosted)

PREFERRED_HOSTS == { <<"i",".","p","i","n","i","m","g",".","c","o","m">>, <<"v","1",".","p","i","n","i","m","g",".","c","o","m">> }

IsPreferred(item) ==
    item.media_type = "video" \/ Lower(item.url.netloc) \in PREFERRED_HOSTS

\* lines 122-130 without the filter
PreferredOnlyKeepsAll(deduped) == deduped

\* lines 123-130: the preferred-host filter
PreferredOnly(deduped) ==
    IF \E i \in 1..Len(deduped) : IsPreferred(deduped[i])
    THEN SelectSeq(deduped, IsPreferred) ELSE deduped
(***************************************************************************)
(* utils/pinterest_urls.py                                                 *)
(***************************************************************************)
PIN_SHORT_HOSTS == {<<"p","i","n",".","i","t">>}

RESERVED_PROFILE_SEGMENTS ==
    {<<>>, <<"p","i","n">>, <<"p","i","n","s">>, <<"s","e","a","r","c","h">>, <<"i","d","e","a","s">>, <<"e","x","p","l","o","r","e">>, <<"d","i","s","c","o","v","e","r">>, <<"c","a","t","e","g","o","r","i","e","s">>,
     <<"b","u","s","i","n","e","s","s">>, <<"a","b","o","u","t">>, <<"h","e","l","p">>, <<"p","r","i","v","a","c","y">>, <<"s","e","t","t","i","n","g","s">>, <<"l","o","g","i","n">>, <<"s","i","g","n","u","p">>,
     <<"c","r","e","a","t","e">>, <<"s","h","o","p">>, <<"_">>}

LowerLetters ==
    {"a", "b", "c", "d", "e", "f", "g", "h", "i", "j", "k", "l", "m",
     "n", "o", "p", "q", "r", "s", "t", "u", "v", "w", "x", "y", "z"}

RECURSIVE StripLeft(_)
StripLeft(s) == IF Len(s) > 0 /\ s[1] = " " THEN StripLeft(Tail(s)) ELSE s

RECURSIVE StripRight(_)
StripRight(s) ==
    IF Len(s) > 0 /\ s[Len(s)] = " " THEN StripRight(SubSeq(s, 1, Len(s) - 1)) ELSE s

\* str.strip()
Strip(s) == StripRight(StripLeft(s))

\* PINTEREST_HOST_RE = (?:^|\.)pinterest\.[a-z.]+$ searched in a lowered host
MatchesPinterestHostRe(host) ==
    \E i \in 1..Len(host) :
        /\ (i = 1 \/ host[i - 1] = ".")
        /\ i + 10 <= Len(host)
        /\ SubSeq(host, i, i + 9) = <<"p","i","n","t","e","r","e","s","t",".">>
        /\ \A j \in (i + 10)..Len(host) : host[j] \in LowerLetters \cup {"."}

\* is_pinterest_host
IsPinterestHost(host) ==
    \E host_value \in {Strip(Lower(host))} :
        /\ Len(host_value) > 0
        /\ (host_value \in PIN_SHORT_HOSTS \/ MatchesPinterestHostRe(host_value))

\* f(value), with value worked out once
With(value, f(_)) == CHOOSE result \in {f(x) : x \in {value}} : TRUE

\* lines 63-67 without the two tests
UsernameOfUnchecked(username) == username

\* lines 63-67
UsernameOf(username) ==
    IF username \in RESERVED_PROFILE_SEGMENTS THEN <<>>
    ELSE IF username[1] = "_" THEN <<>>
    ELSE username

\* line 62
UsernameOfSegment(segment) == With(Lower(segment), UsernameOf)

\* lines 59-67
UsernameOfSegments(segments) ==
    IF Len(segments) = 0 THEN <<>> ELSE With(Strip(segments[1]), UsernameOfSegment)

\* lines 53-67 for the lowered host
UsernameOfHost(host, path) ==
    IF ~IsPinterestHost(host) THEN <<>>
    ELSE IF host \in PIN_SHORT_HOSTS THEN <<>>
    ELSE With(Segments(path), UsernameOfSegments)

\* extract_profile_username; the empty string stands for None
ExtractProfileUsername(url) ==
    CHOOSE username \in {UsernameOfHost(host, url.path) : host \in {Lower(url.netloc)}} : TRUE

\* canonical_profile_url
CanonicalProfileUrl(username) == Url("https", <<"w","w","w",".","p","i","n","t","e","r","e","s","t",".","c","o","m">>, <<"/">> \o username \o <<"/">>)

\* canonical_pin_url
CanonicalPinUrl(pin_id) == Url("https", <<"w","w","w",".","p","i","n","t","e","r","e","s","t",".","c","o","m">>, <<"/","p","i","n","/">> \o pin_id \o <<"/">>)

(***************************************************************************)
(* services/profile_collector.py                                           *)
(***************************************************************************)
END_BOOKMARK == <<"-","e","n","d","-">>

Min(S) == CHOOSE i \in S : \A j \in S : i <= j

\* PIN_PATH_RE = /pin/(\d+)/ with IGNORECASE: where a match can start
PinPathStarts(text) ==
    {i \in 1..Len(text) :
        /\ i + 6 <= Len(text)
        /\ Lower(SubSeq(text, i, i + 4)) = <<"/","p","i","n","/">>
        /\ text[i + 5] \in Digits
        /\ i + 5 + Len(DigitRun(text, i + 5)) <= Len(text)
        /\ text[i + 5 + Len(DigitRun(text, i + 5))] = "/"}

RECURSIVE PinPathFindAll(_)
\* the match that starts at position start, then the matches after it
PinPathFrom(text, start, digits) ==
    <<digits>> \o PinPathFindAll(SubSeq(text, start + 6 + Len(digits), Len(text)))

\* PIN_PATH_RE.findall(text)
PinPathFindAll(text) ==
    IF PinPathStarts(text) = {} THEN <<>>
    ELSE PinPathFrom(text, Min(PinPathStarts(text)),
                     DigitRun(text, Min(PinPathStarts(text)) + 5))

\* the text of a JSON string
StrText(v) == IF v.raw.kind = "blank" THEN <<>> ELSE v.raw.text

IsStr(v) == v.t = "str"
IsDict(v) == v.t = "dict"
IsList(v) == v.t = "list"

\* the fetched profile page: whether the initial-props script is there
\* ("absent", "unparsable" when json.loads fails, "json"), its payload, and the
\* text of the page
Page(script, payload, text) == [script |-> script, payload |-> payload, text |-> text]

\* _parse_initial_props; JNull stands for None
ParseInitialProps(page) ==
    IF page.script = "absent" THEN JNull
    ELSE IF page.script = "unparsable" THEN JNull
    ELSE IF ~IsDict(page.payload) THEN JNull
    ELSE page.payload

\* lines 146-150
FirstEntry(user_pins_resource) ==
    IF IsDict(DictGet(user_pins_resource, user_pins_resource.items[1].k))
    THEN DictGet(user_pins_resource, user_pins_resource.items[1].k)
    ELSE JNull

\* lines 142-144
EntryOfResources(user_pins_resource) ==
    IF ~IsDict(user_pins_resource) \/ ~Truthy(user_pins_resource) THEN JNull
    ELSE FirstEntry(user_pins_resource)

\* lines 138-140
EntryOfState(resources) ==
    IF ~IsDict(resources) THEN JNull
    ELSE EntryOfResources(DictGet(resources, <<"U","s","e","r","P","i","n","s","R","e","s","o","u","r","c","e">>))

\* lines 134-136
EntryOfProps(state) ==
    IF ~IsDict(state) THEN JNull
    ELSE EntryOfState(DictGet(state, <<"r","e","s","o","u","r","c","e","s">>))

\* _extract_user_pins_entry; JNull stands for None
ExtractUserPinsEntry(initial_props) ==
    EntryOfProps(DictGet(initial_props, <<"i","n","i","t","i","a","l","R","e","d","u","x","S","t","a","t","e">>))

\* lines 168-170
UrlFromId(pin_id) ==
    IF IsStr(pin_id) /\ IsDigitStr(StrText(pin_id))
    THEN << CanonicalPinUrl(StrText(pin_id)) >>
    ELSE <<>>

\* lines 161-166
UrlFromSeo(seo_url, found, pin_id) ==
    IF IsStr(seo_url) /\ Len(found) > 0 THEN << CanonicalPinUrl(found[1]) >>
    ELSE UrlFromId(pin_id)

\* lines 158-170 for one row
RowUrls(row) ==
    IF ~IsDict(row) THEN <<>>
    ELSE UrlFromSeo(DictGet(row, <<"s","e","o","_","u","r","l">>),
                    PinPathFindAll(StrText(DictGet(row, <<"s","e","o","_","u","r","l">>))),
                    DictGet(row, <<"i","d">>))

RECURSIVE RowsUrls(_)
RowsUrls(items) ==
    IF Len(items) = 0 THEN <<>> ELSE RowUrls(items[1].v) \o RowsUrls(Tail(items))

\* _extract_pin_urls_from_resource_data
ExtractPinUrlsFromResourceData(rows) ==
    IF ~IsList(rows) THEN <<>> ELSE RowsUrls(rows.items)

RECURSIVE CanonicalPinUrls(_)
CanonicalPinUrls(pin_ids) ==
    IF Len(pin_ids) = 0 THEN <<>>
    ELSE << CanonicalPinUrl(pin_ids[1]) >> \o CanonicalPinUrls(Tail(pin_ids))

\* _extract_pin_urls_from_html
ExtractPinUrlsFromHtml(html_text) == CanonicalPinUrls(PinPathFindAll(html_text))

\* line 261: the URL without query and fragment
WithoutQueryAndFragment(url) == [url EXCEPT !.query = <<>>, !.fragment = <<>>]

\* _dedupe_urls as it would be without the membership test of line 262
DedupeStepKeepsAll(deduped, normalized) == Append(deduped, normalized)

\* lines 262-264
DedupeStep(deduped, normalized) ==
    IF normalized \in Range(deduped) THEN deduped ELSE Append(deduped, normalized)

RECURSIVE DedupeFirst(_, _)
\* deduped after the first n turns of the loop of _dedupe_urls
DedupeFirst(urls, n) ==
    IF n = 0 THEN <<>>
    ELSE CHOOSE result \in {DedupeStep(deduped, WithoutQueryAndFragment(urls[n])) :
                                deduped \in {DedupeFirst(urls, n - 1)}} : TRUE

\* _dedupe_urls
DedupeUrls(urls) == DedupeFirst(urls, Len(urls))

\* lines 107-108 and 76-77: deduped[:max_pins] when max_pins > 0
Truncated(deduped, max_pins) ==
    IF max_pins > 0 /\ Len(deduped) > max_pins THEN SubSeq(deduped, 1, max_pins) ELSE deduped

\* _can_continue_pagination
CanContinuePagination(bookmark, max_pins, current_count) ==
    IF max_pins > 0 /\ current_count >= max_pins THEN FALSE
    ELSE IF ~IsStr(bookmark) THEN FALSE
    ELSE IF Len(StrText(bookmark)) = 0 THEN FALSE
    ELSE IF StrText(bookmark) = END_BOOKMARK THEN FALSE
    ELSE TRUE

\* the loop as it would be without the test of lines 90-91
AlreadySeenNever(bookmark, seen_bookmarks) == FALSE

\* lines 90-91: the cursor was already sent in this call
AlreadySeen(bookmark, seen_bookmarks) == StrText(bookmark) \in seen_bookmarks

\* the loop as it would be if line 92 forgot the cursor
SeenBookmarksUnchanged(seen_bookmarks, bookmark) == seen_bookmarks

\* line 92: seen_bookmarks.add(bookmark)
SeenBookmarksAdd(seen_bookmarks, bookmark) == seen_bookmarks \cup {StrText(bookmark)}

\* an answer of the paginated endpoint: kind "error" (no response), "text" (a
\* body that is not JSON) or "json"
HttpAnswer(status, kind, payload) == [status |-> status, kind |-> kind, payload |-> payload]

\* what _fetch_user_pins_page gives: the exception it raises, or the rows and
\* the next bookmark
Fetched(error, page_data, bookmark) ==
    [error |-> error, page_data |-> page_data, bookmark |-> bookmark]

\* a 403 or an undecodable body passed on as the HTTP error
EndOfPagesRaises == Fetched("HTTPError", JList(<<>>), JNull)

EndOfPages == Fetched("", JList(<<>>), JStr(RawText(END_BOOKMARK)))

\* line 241
TypedRows(data) == Json("list", SelectSeq(data.items, LAMBDA kv : IsDict(kv.v)), RawBlank)

\* lines 238-242
RowsAndBookmark(data, bookmark_value) ==
    IF ~IsList(data) THEN Fetched("", JList(<<>>), bookmark_value)
    ELSE Fetched("", TypedRows(data), bookmark_value)

\* lines 234-236
BookmarkValue(bookmark_value) ==
    IF ~IsStr(bookmark_value) THEN JStr(RawText(END_BOOKMARK)) ELSE bookmark_value

\* lines 229-242
FromResourceResponse(resource_response) ==
    IF ~IsDict(resource_response) THEN EndOfPages
    ELSE RowsAndBookmark(DictGet(resource_response, <<"d","a","t","a">>),
                         BookmarkValue(DictGet(resource_response, <<"b","o","o","k","m","a","r","k">>)))

\* line 222: raise_for_status
RaiseForStatus(status) == status >= 400

\* _fetch_user_pins_page, from the answer to the POST
FetchUserPinsPage(answer) ==
    IF answer.kind = "error" THEN Fetched("RequestException", JList(<<>>), JNull)
    ELSE IF answer.status = 403 THEN EndOfPages
    ELSE IF RaiseForStatus(answer.status) THEN Fetched("HTTPError", JList(<<>>), JNull)
    ELSE IF answer.kind = "text" THEN EndOfPages
    ELSE IF ~IsDict(answer.payload) THEN Fetched("AttributeError", JList(<<>>), JNull)
    ELSE FromResourceResponse(DictGet(answer.payload, <<"r","e","s","o","u","r","c","e","_","r","e","s","p","o","n","s","e">>))

(***************************************************************************)
(* The inputs the model draws from                                         *)
(***************************************************************************)
H_WWW == <<"w","w","w",".","p","i","n","t","e","r","e","s","t",".","c","o","m">>
H_SHORT == <<"p","i","n",".","i","t">>
H_IMG == <<"i",".","p","i","n","i","m","g",".","c","o","m">>
H_VID == <<"v","1",".","p","i","n","i","m","g",".","c","o","m">>
H_STATIC == <<"s",".","p","i","n","i","m","g",".","c","o","m">>
H_OTHER == <<"e","x","a","m","p","l","e",".","c","o","m">>

U_PIN == Url("https", H_WWW, <<"/","p","i","n","/","1","2","/">>)
U_PIN_34 == Url("https", H_WWW, <<"/","p","i","n","/","3","4","/">>)
U_SHORT == Url("https", H_SHORT, <<"/","a","b","c">>)
U_IDEAS == Url("https", H_WWW, <<"/","i","d","e","a","s","/">>)
U_BAD_SCHEME == Url("ftp", H_WWW, <<"/","p","i","n","/","1","2","/">>)
U_NO_HOST == Url("https", <<>>, <<>>)
U_236 == Url("https", H_IMG, <<"/","2","3","6","x","/","a","b","c","/","d","e","f",".","j","p","g">>)
U_736 == Url("https", H_IMG, <<"/","7","3","6","x","/","a","b","c","/","d","e","f",".","j","p","g">>)
U_5000 == Url("https", H_IMG, <<"/","5","0","0","0","x","/","a","b","c","/","d","e","f",".","j","p","g">>)
U_ORIG == Url("https", H_IMG, <<"/","o","r","i","g","i","n","a","l","s","/","a","b","c","/","d","e","f",".","j","p","g">>)
U_STATIC_236 == Url("https", H_STATIC, <<"/","2","3","6","x","/","a","b","c","/","d","e","f",".","j","p","g">>)
U_SHARE == Url("https", H_STATIC, <<"/","i","m","a","g","e","s","/","f","a","c","e","b","o","o","k","_","s","h","a","r","e","_","i","m","a","g","e",".","p","n","g">>)
U_SCRIPT == Url("https", H_STATIC, <<"/","w","e","b","a","p","p","/","a","p","p",".","j","s">>)
U_MP4 == Url("https", H_VID, <<"/","v","i","d","e","o","s","/","7","2","0","p","/","a",".","m","p","4">>)
U_HLS == Url("https", H_VID, <<"/","v","i","d","e","o","s","/","h","l","s","/","a",".","m","3","u","8">>)
U_EXTERNAL == Url("https", H_OTHER, <<"/","a",".","j","p","g">>)

\* the normalized pin_url of a call
INPUT_URLS ==
    << U_PIN, U_SHORT, U_IDEAS, U_BAD_SCHEME, U_NO_HOST, U_236, U_ORIG, U_STATIC_236, U_MP4 >>

UrlEntry(url) == JDict(<< KV(<<"u","r","l">>, JStr(RawUrl(url))) >>)

\* payloads of the pin info endpoint
PIN_IMAGES_ONLY ==
    JDict(<< KV(<<"i","m","a","g","e","s">>, JDict(<< KV(<<"o","r","i","g">>, UrlEntry(U_ORIG)),
                                    KV(<<"2","3","6","x">>, UrlEntry(U_236)) >>)) >>)

PIN_736_ONLY == JDict(<< KV(<<"i","m","a","g","e","s">>, JDict(<< KV(<<"7","3","6","x">>, UrlEntry(U_736)) >>)) >>)

PIN_SAME_URL_TWICE ==
    JDict(<< KV(<<"i","m","a","g","e","s">>, JDict(<< KV(<<"2","3","6","x">>, UrlEntry(U_236)),
                                    KV(<<"o","r","i","g">>, UrlEntry(U_236)) >>)) >>)

PIN_WITH_VIDEO ==
    JDict(<< KV(<<"i","m","a","g","e","s">>, JDict(<< KV(<<"o","r","i","g">>, UrlEntry(U_5000)) >>)),
             KV(<<"v","i","d","e","o","s">>, JDict(<< KV(<<"v","i","d","e","o","_","l","i","s","t">>,
                 JDict(<< KV(<<"V","_","H","L","S","V","4">>, UrlEntry(U_HLS)),
                          KV(<<"V","_","7","2","0","P">>, UrlEntry(U_MP4)) >>)) >>)) >>)

PIN_STORY ==
    JDict(<< KV(<<"i","m","a","g","e","s">>, JDict(<< KV(<<"7","3","6","x">>, UrlEntry(U_736)),
                                    KV(<<"b","a","d">>, JStr(RawUrl(U_736))),
                                    KV(<<"s","h","a","r","e">>, UrlEntry(U_SHARE)) >>)),
             KV(<<"v","i","d","e","o","s">>, JNull),
             KV(<<"s","t","o","r","y","_","p","i","n","_","d","a","t","a">>, JDict(<< KV(<<"p","a","g","e","s">>,
                 JList(<< JDict(<< KV(<<"i","m","a","g","e">>, JStr(RawEscaped(U_736))) >>),
                          JStr(RawText(<<"c","o","v","e","r">>)),
                          JStr(RawUrl(U_SCRIPT)),
                          JStr(RawUrl(U_EXTERNAL)) >>)) >>)),
             KV(<<"i","s","_","v","i","d","e","o">>, JTrue),
             KV(<<"v","i","d","e","o","_","u","r","l">>, JStr(RawUrl(U_MP4))) >>)

PIN_NOTHING == JDict(<< KV(<<"i","m","a","g","e","s">>, JDict(<< KV(<<"s","h","a","r","e">>, UrlEntry(U_SHARE)) >>)),
                        KV(<<"i","s","_","v","i","d","e","o">>, JFalse) >>)

PinInfo(pin_data) == Answer("json", JDict(<< KV(<<"d","a","t","a">>, JList(<< pin_data >>)) >>))

API_ANSWERS ==
    << Answer("error", JNull),
       Answer("json", JList(<<>>)),
       Answer("json", JDict(<< KV(<<"d","a","t","a">>, JList(<<>>)) >>)),
       Answer("json", JDict(<< KV(<<"s","t","a","t","u","s">>, JStr(RawText(<<"f","a","i","l","u","r","e">>))) >>)),
       PinInfo(JStr(RawText(<<"g","o","n","e">>))),
       PinInfo(PIN_IMAGES_ONLY),
       PinInfo(PIN_736_ONLY),
       PinInfo(PIN_SAME_URL_TWICE),
       PinInfo(PIN_WITH_VIDEO),
       PinInfo(PIN_STORY),
       PinInfo(PIN_NOTHING) >>

\* answers of the oEmbed endpoint
OEMBED_ANSWERS ==
    << Answer("error", JNull),
       Answer("json", JNull),
       Answer("json", JDict(<< KV(<<"h","t","m","l">>, JStr(RawText(<<"<","a"," ","h","r","e","f","=","\"","?","i","d","=","3","4","\"",">">>))) >>)),
       Answer("json", JDict(<< KV(<<"h","t","m","l">>, JNull),
                               KV(<<"t","h","u","m","b","n","a","i","l","_","u","r","l">>, JStr(RawUrl(U_236))),
                               KV(<<"u","r","l">>, JStr(RawUrl(U_PIN))) >>)),
       Answer("json", JDict(<< KV(<<"t","h","u","m","b","n","a","i","l","_","u","r","l">>, JStr(RawUrl(U_SHARE))),
                               KV(<<"u","r","l">>, JStr(RawUrl(U_EXTERNAL))) >>)) >>

LD_IMAGE_AND_VIDEO ==
    LdBlock(TRUE, JDict(<< KV(<<"i","m","a","g","e">>, JStr(RawUrl(U_5000))),
                           KV(<<"c","o","n","t","e","n","t","U","r","l">>, JStr(RawUrl(U_HLS))),
                           KV(<<"t","h","u","m","b","n","a","i","l","U","r","l">>, JList(<< JStr(RawUrl(U_EXTERNAL)) >>)) >>))

LD_BROKEN == LdBlock(FALSE, JNull)

NO_PIN_TEXT == <<>>
PIN_TEXT == <<"\"","/","p","i","n","/","7","7","/","\"">>

\* fetched pages
BODIES ==
    << Body(NO_PIN_TEXT, <<>>, <<>>, <<>>),
       Body(PIN_TEXT, <<>>, <<>>, <<>>),
       Body(NO_PIN_TEXT, << RawUrl(U_236) >>, <<>>, << RawUrl(U_236) >>),
       Body(PIN_TEXT, << RawUrl(U_EXTERNAL), RawUrl(U_STATIC_236) >>, << LD_BROKEN >>,
            << RawUrl(U_STATIC_236) >>),
       Body(NO_PIN_TEXT, << RawUrl(U_EXTERNAL) >>, << LD_IMAGE_AND_VIDEO >>,
            << RawUrl(U_5000), RawUrl(U_HLS) >>),
       Body(PIN_TEXT, << RawBlank, RawUrl(U_SHARE) >>, << LD_BROKEN >>,
            << RawUrl(U_SHARE), RawEscaped(U_736), RawUrl(U_SCRIPT), RawUrl(U_736),
               RawUrl(U_ORIG), RawUrl(U_MP4) >>) >>

\* where the page fetch ends after redirects: the requested URL itself
\* (NoUrl here), a pin page, a page without pin id, or a media file
FINAL_URLS == << NoUrl, U_PIN, U_PIN_34, U_IDEAS, U_736, U_MP4 >>

(***************************************************************************)
(* State of one resolve_media_candidates call                              *)
(***************************************************************************)
VARIABLES
    r_pc,        \* position in resolve_media_candidates
    r_url,       \* normalized
    r_final,     \* response.url
    r_body,      \* response.text
    r_pin_id,    \* pin_id
    r_result,    \* the list returned
    r_error,     \* the exception raised
    r_found,     \* every candidate built during the call
    r_empty,     \* the strategies that ended without a candidate
    r_requests,  \* the HTTP requests issued, in order
    r_last       \* the answer to the latest request to an endpoint

rvars == <<r_pc, r_url, r_final, r_body, r_pin_id, r_result, r_error, r_found,
           r_empty, r_requests, r_last>>

\* no endpoint has answered yet
NoReply == Answer("none", JNull)

RInit ==
    /\ r_pc = "start"
    /\ r_url \in Range(INPUT_URLS)
    /\ r_final = NoUrl
    /\ r_body = BODIES[1]
    /\ r_pin_id = <<>>
    /\ r_result = <<>>
    /\ r_error = ""
    /\ r_found = {}
    /\ r_empty = {}
    /\ r_requests = <<>>
    /\ r_last = NoReply

RIdle ==
    /\ r_pc = "idle"
    /\ r_url = NoUrl
    /\ r_final = NoUrl
    /\ r_body = BODIES[1]
    /\ r_pin_id = <<>>
    /\ r_result = <<>>
    /\ r_error = ""
    /\ r_found = {}
    /\ r_empty = {}
    /\ r_requests = <<>>
    /\ r_last = NoReply

RReturn(candidates) ==
    /\ r_pc' = "returned"
    /\ r_result' = candidates
    /\ r_error' = ""

RRaise(error) ==
    /\ r_pc' = "raised"
    /\ r_result' = <<>>
    /\ r_error' = error

RGoto(pc) ==
    /\ r_pc' = pc
    /\ UNCHANGED <<r_result, r_error>>

IsDirectMedia(url) == IsPinimgHost(url.netloc) /\ InferMediaType(url) # None

\* the fast path shared by the direct and the redirect strategy
FastPath(url, source) ==
    Deduped(Built(BuildCandidates(url, InferMediaType(url), source, <<"o","r","i","g">>)))

(***************************************************************************)
(* The inputs of one collect_profile_pin_urls call                         *)
(***************************************************************************)
\* the number of distinct cursors the endpoint hands out
MaxBookmarks == 2

\* the largest max_pins a call is made with
MaxPins == 2

\* more POSTs than this cannot happen while every cursor is sent once
MaxRequests == MaxBookmarks + 1

MAX_PINS_CHOICES == (-1)..MaxPins

DigitChars == <<"0", "1", "2", "3", "4", "5", "6", "7", "8", "9">>

BookmarkName(i) == <<"b", DigitChars[i + 1]>>

JText(text) == JStr(RawText(text))

\* the bookmark field of an answer: a fresh or repeated cursor, the end
\* marker, or no string at all
BOOKMARKS ==
    [i \in 1..MaxBookmarks |-> JText(BookmarkName(i))] \o << JText(END_BOOKMARK), JNull >>

\* the normalized profile_url of a call
PROFILE_URLS ==
    << Url("https", <<"W","W","W",".","P","i","n","t","e","r","e","s","t",".","c","o","m">>, <<"/","S","o","m","e",".","U","s","e","r","/","p","i","n","s","/">>),
       Url("https", <<"w","w","w",".","p","i","n","t","e","r","e","s","t",".","c","o","m">>, <<"/","i","d","e","a","s","/">>),
       Url("https", <<"w","w","w",".","p","i","n","t","e","r","e","s","t",".","c","o","m">>, <<"/","_","s","a","v","e","d","/">>),
       Url("https", <<"p","i","n",".","i","t">>, <<"/","a","b","c">>),
       Url("https", <<"n","o","t","p","i","n","t","e","r","e","s","t",".","c","o","m",".","e","x","a","m","p","l","e">>, <<"/","u","s","e","r","/">>),
       Url("ftp", <<"w","w","w",".","p","i","n","t","e","r","e","s","t",".","c","o","m">>, <<"/","u","s","e","r","/">>) >>

ROW_SEO_1 == JDict(<< KV(<<"s","e","o","_","u","r","l">>, JText(<<"/","p","i","n","/","1","/">>)), KV(<<"i","d">>, JText(<<"9">>)) >>)
ROW_ID_2 == JDict(<< KV(<<"i","d">>, JText(<<"2">>)) >>)
ROW_ID_3 == JDict(<< KV(<<"s","e","o","_","u","r","l">>, JNull), KV(<<"i","d">>, JText(<<"3">>)) >>)
ROW_BAD_SEO_4 == JDict(<< KV(<<"s","e","o","_","u","r","l">>, JText(<<"/","p","i","n","/","x","/">>)), KV(<<"i","d">>, JText(<<"4">>)) >>)
ROW_JUNK == JDict(<< KV(<<"t","y","p","e">>, JText(<<"s","t","o","r","y">>)), KV(<<"i","d">>, JText(<<"n","5">>)) >>)
ROW_NOT_DICT == JText(<<"/","p","i","n","/","6","/">>)

UserPins(entry) ==
    JDict(<< KV(<<"i","n","i","t","i","a","l","R","e","d","u","x","S","t","a","t","e">>,
                JDict(<< KV(<<"r","e","s","o","u","r","c","e","s">>,
                            JDict(<< KV(<<"U","s","e","r","P","i","n","s","R","e","s","o","u","r","c","e">>,
                                        JDict(<< KV(<<"k">>, entry) >>)) >>)) >>)) >>)

Entry(data, bookmark) == JDict(<< KV(<<"d","a","t","a">>, data), KV(<<"n","e","x","t","B","o","o","k","m","a","r","k">>, bookmark) >>)

HTML_TWO_PINS == <<"<","a"," ","h","r","e","f","=","\"","/","p","i","n","/","1","/","\"",">","<","a"," ","h","r","e","f","=","\"","/","P","i","n","/","2","/","x","\"",">","/","p","i","n","/","1","/">>
HTML_THREE_PINS == <<"/","p","i","n","/","3","/"," ","/","p","i","n","/","1","/","p","i","n","/","2","/"," ","/","p","i","n","/","3","/"," ","/","p","i","n","/","x","/"," ","/","p","i","n","/","2","/"," ","/","p","i","n","/","4">>
HTML_NO_PIN == <<"<","h","t","m","l",">">>

\* the profile pages the GET can bring
PAGES ==
    << Page("absent", JNull, HTML_TWO_PINS),
       Page("absent", JNull, HTML_NO_PIN),
       Page("unparsable", JNull, HTML_TWO_PINS),
       Page("json", JList(<<>>), HTML_TWO_PINS),
       Page("json", JDict(<<>>), HTML_TWO_PINS),
       Page("json", JDict(<< KV(<<"i","n","i","t","i","a","l","R","e","d","u","x","S","t","a","t","e">>,
                                JDict(<< KV(<<"r","e","s","o","u","r","c","e","s">>, JDict(<<>>)) >>)) >>),
            HTML_THREE_PINS),
       Page("json", JDict(<< KV(<<"i","n","i","t","i","a","l","R","e","d","u","x","S","t","a","t","e">>, JTrue) >>), HTML_NO_PIN),
       Page("json", UserPins(JList(<<>>)), HTML_TWO_PINS),
       Page("json", UserPins(Entry(JList(<< ROW_SEO_1, ROW_ID_2, ROW_SEO_1 >>),
                                   JText(BookmarkName(1)))), HTML_NO_PIN),
       Page("json", UserPins(Entry(JList(<<>>), JText(BookmarkName(1)))), HTML_NO_PIN),
       Page("json", UserPins(Entry(JList(<< ROW_SEO_1, ROW_SEO_1 >>),
                                   JText(BookmarkName(1)))), HTML_NO_PIN),
       Page("json", UserPins(Entry(JList(<< ROW_SEO_1 >>), JText(END_BOOKMARK))), HTML_NO_PIN),
       Page("json", UserPins(JDict(<< KV(<<"d","a","t","a">>, JList(<< ROW_ID_2 >>)) >>)), HTML_NO_PIN) >>

\* the data field of an answer
PAGE_ROWS ==
    << JList(<<>>),
       JList(<< ROW_JUNK >>),
       JList(<< ROW_SEO_1, ROW_NOT_DICT >>),
       JList(<< ROW_ID_3, ROW_BAD_SEO_4 >>) >>

ResourceResponse(data, bookmark) ==
    JDict(<< KV(<<"r","e","s","o","u","r","c","e","_","r","e","s","p","o","n","s","e">>,
                JDict(<< KV(<<"d","a","t","a">>, data), KV(<<"b","o","o","k","m","a","r","k">>, bookmark) >>)) >>)

\* the answers of the paginated endpoint that carry no rows
BARE_ANSWERS ==
    << HttpAnswer(0, "error", JNull),
       HttpAnswer(403, "text", JNull),
       HttpAnswer(429, "text", JNull),
       HttpAnswer(500, "json", JDict(<<>>)),
       HttpAnswer(200, "text", JNull),
       HttpAnswer(200, "json", JList(<<>>)),
       HttpAnswer(200, "json", JDict(<< KV(<<"r","e","s","o","u","r","c","e","_","r","e","s","p","o","n","s","e">>, JNull) >>)),
       HttpAnswer(200, "json", ResourceResponse(JNull, JText(BookmarkName(1)))) >>

(***************************************************************************)
(* State of one collect_profile_pin_urls call                              *)
(***************************************************************************)
VARIABLES
    c_pc,         \* position in collect_profile_pin_urls
    c_url,        \* normalized
    c_max_pins,   \* max_pins
    c_username,   \* username
    c_page,       \* the profile page the GET brought
    c_initial,    \* what the initial payload yielded
    c_collected,  \* collected (fallback on the HTML path)
    c_bookmark,   \* bookmark
    c_seen,       \* seen_bookmarks
    c_sent,       \* the bookmarks POSTed, in order
    c_last,       \* the answer to the latest POST
    c_result,     \* the ProfileCollectionResult returned
    c_error,      \* the class of the exception raised
    c_message     \* its message

cvars == <<c_pc, c_url, c_max_pins, c_username, c_page, c_initial, c_collected,
           c_bookmark, c_seen, c_sent, c_last, c_result, c_error, c_message>>

NoPage == Page("absent", JNull, <<>>)

\* no POST was answered yet
NoAnswer == HttpAnswer(0, "none", JNull)

\* ProfileCollectionResult
ProfileCollectionResult(profile_url, profile_username, pin_urls, discovered_count) ==
    [profile_url |-> profile_url, profile_username |-> profile_username,
     pin_urls |-> pin_urls, discovered_count |-> discovered_count]

NoResult == ProfileCollectionResult(NoUrl, <<>>, <<>>, 0)

CBlank ==
    /\ c_username = <<>>
    /\ c_page = NoPage
    /\ c_initial = <<>>
    /\ c_collected = <<>>
    /\ c_bookmark = JNull
    /\ c_seen = {}
    /\ c_sent = <<>>
    /\ c_last = NoAnswer
    /\ c_result = NoResult
    /\ c_error = ""
    /\ c_message = ""

CInit ==
    /\ c_pc = "start"
    /\ c_url \in Range(PROFILE_URLS)
    /\ c_max_pins \in MAX_PINS_CHOICES
    /\ CBlank

CIdle ==
    /\ c_pc = "idle"
    /\ c_url = NoUrl
    /\ c_max_pins = 0
    /\ CBlank

(***************************************************************************)
(* utils/validation.py on strings; urlparse as the standard library        *)
(* computes scheme and netloc                                              *)
(***************************************************************************)
\* scheme_chars of urllib.parse
IsSchemeChar(c) == LowerChar(c) \in LowerLetters \/ c \in Digits \/ c \in {"+", "-", "."}

\* urlsplit: the text before the first ":" is a scheme when the colon is not
\* the first character, the text starts with a letter and holds scheme_chars only
HasScheme(url, colon) ==
    /\ colon > 1
    /\ LowerChar(url[1]) \in LowerLetters
    /\ \A j \in 1..(colon - 1) : IsSchemeChar(url[j])

\* the scheme as the model's URL records name it
SchemeName(chars) ==
    IF chars = <<>> THEN ""
    ELSE IF chars = <<"h","t","t","p">> THEN "http"
    ELSE IF chars = <<"h","t","t","p","s">> THEN "https"
    ELSE IF chars = <<"f","t","p">> THEN "ftp"
    ELSE "other"

\* _splitnetloc: the first "/", "?" or "#" at or after position from, or one
\* past the end
NetlocEnd(s, from) ==
    IF \E j \in from..Len(s) : s[j] \in {"/", "?", "#"}
    THEN CHOOSE j \in from..Len(s) :
            /\ s[j] \in {"/", "?", "#"}
            /\ \A k \in from..(j - 1) : s[k] \notin {"/", "?", "#"}
    ELSE Len(s) + 1

\* url[:2] == '//'
HasNetloc(rest) == Len(rest) >= 2 /\ rest[1] = "/" /\ rest[2] = "/"

\* "Invalid IPv6 URL": one bracket without the other
UnbalancedBrackets(netloc) ==
    \/ ("[" \in Range(netloc) /\ "]" \notin Range(netloc))
    \/ ("]" \in Range(netloc) /\ "[" \notin Range(netloc))

\* s.split(c, 1)[0] and [1]
BeforeChar(s, c) == IF FirstIndex(s, c) = 0 THEN s ELSE SubSeq(s, 1, FirstIndex(s, c) - 1)
AfterChar(s, c) == IF FirstIndex(s, c) = 0 THEN <<>> ELSE SubSeq(s, FirstIndex(s, c) + 1, Len(s))

Parsed(error, url) == [error |-> error, url |-> url]

\* urlsplit once scheme and netloc are cut off
ParseTail(scheme, netloc, tail) ==
    Parsed(UnbalancedBrackets(netloc),
           [scheme |-> SchemeName(scheme), netloc |-> netloc,
            path |-> BeforeChar(BeforeChar(tail, "#"), "?"),
            query |-> AfterChar(BeforeChar(tail, "#"), "?"),
            fragment |-> AfterChar(tail, "#")])

\* urlsplit once the scheme is cut off
ParseRest(scheme, rest) ==
    IF HasNetloc(rest)
    THEN ParseTail(scheme, SubSeq(rest, 3, NetlocEnd(rest, 3) - 1),
                   SubSeq(rest, NetlocEnd(rest, 3), Len(rest)))
    ELSE ParseTail(scheme, <<>>, rest)

\* urlparse(url) for a text without control characters, leading blanks,
\* ";" parameters or a bracketed host; error: it raises ValueError
UrlParse(url) ==
    IF HasScheme(url, FirstIndex(url, ":"))
    THEN ParseRest(Lower(SubSeq(url, 1, FirstIndex(url, ":") - 1)),
                   SubSeq(url, FirstIndex(url, ":") + 1, Len(url)))
    ELSE ParseRest(<<>>, url)

\* normalize_url, lines 9-12, for the trimmed text
NormalizeStripped(url) ==
    IF Len(url) = 0 THEN <<>>
    ELSE IF ~Contains(url, <<":","/","/">>) THEN <<"h","t","t","p","s",":","/","/">> \o url
    ELSE url

\* normalize_url
NormalizeUrl(raw_url) == With(Strip(raw_url), NormalizeStripped)

\* lines 16-20 once urlparse has answered
IsValidParsed(parsed) == ~parsed.error /\ IsValidHttpUrl(parsed.url)

\* is_valid_http_url of a string
IsValidHttpUrlText(url) == With(UrlParse(url), IsValidParsed)

\* invalid_entries.append(item) left out
InvalidAppendDropped(invalid_entries, item) == invalid_entries

\* line 35
InvalidAppend(invalid_entries, item) == Append(invalid_entries, item)

(***************************************************************************)
(* The inputs of one parse_url_lines call                                  *)
(***************************************************************************)
\* the longest text, in lines, besides the five-line example
MaxLines == 3

\* the lines a text is made of
LINES ==
    << <<"h","t","t","p","s",":","/","/","w","w","w",".","p","i","n","t","e","r","e","s","t",".","c","o","m","/","p","i","n","/","1","2","/">>,
       <<" "," ","w","w","w",".","p","i","n","t","e","r","e","s","t",".","c","o","m","/","p","i","n","/","1","2","/"," ">>,
       <<"p","i","n",".","i","t","/","a","b","c">>,
       <<"n","o","t"," ","a"," ","u","r","l","#","#","#">>,
       <<" "," "," ">>,
       <<"f","t","p",":","/","/","h","o","s","t","/","x">>,
       <<"h","t","t","p","s",":","/","/","[","b","a","d">>,
       <<"H","T","T","P",":","/","/","X",".","c","o","m">>,
       <<"h","t","t","p","s",":","/","/","?","q">> >>

\* five lines, one of them a duplicate and one malformed
EXAMPLE_LINES ==
    << <<"h","t","t","p","s",":","/","/","w","w","w",".","p","i","n","t","e","r","e","s","t",".","c","o","m","/","p","i","n","/","1","2","/">>,
       <<"h","t","t","p","s",":","/","/","p","i","n",".","i","t","/","a","b","c">>,
       <<"h","t","t","p","s",":","/","/","w","w","w",".","p","i","n","t","e","r","e","s","t",".","c","o","m","/","p","i","n","/","1","2","/">>,
       <<"n","o","t"," ","a"," ","u","r","l","#","#","#">>,
       <<"w","w","w",".","p","i","n","t","e","r","e","s","t",".","c","o","m","/","u","s","e","r","/">> >>

\* text.splitlines() of the texts parse_url_lines is called with
TEXTS ==
    {EXAMPLE_LINES} \cup
    UNION {{[i \in 1..n |-> LINES[pick[i]]] : pick \in [1..n -> 1..Len(LINES)]} : n \in 0..MaxLines}

(***************************************************************************)
(* State of one parse_url_lines call                                       *)
(***************************************************************************)
VARIABLES
    p_pc,        \* position in parse_url_lines
    p_lines,     \* text.splitlines()
    p_at,        \* the number of lines the loop has taken
    p_valid,     \* valid_urls
    p_invalid,   \* invalid_entries
    p_seen       \* seen

pvars == <<p_pc, p_lines, p_at, p_valid, p_invalid, p_seen>>

PBlank ==
    /\ p_at = 0
    /\ p_valid = <<>>
    /\ p_invalid = <<>>
    /\ p_seen = {}

PInit ==
    /\ p_pc = "loop"
    /\ p_lines \in TEXTS
    /\ PBlank

PIdle ==
    /\ p_pc = "idle"
    /\ p_lines = <<>>
    /\ PBlank

(***************************************************************************)
(* The inputs and the state of one extract_profile_username call           *)
(***************************************************************************)
USERNAME_HOSTS ==
    << <<"w","w","w",".","p","i","n","t","e","r","e","s","t",".","c","o","m">>, <<"P","i","n","t","e","r","e","s","t",".","C","O",".","U","K">>, <<"p","i","n",".","i","t">>, <<"n","o","t","p","i","n","t","e","r","e","s","t",".","c","o","m">>,
       <<"w","w","w",".","p","i","n","t","e","r","e","s","t",".","c","o","m",".","e","v","i","l","-","1",".","i","o">>, <<>> >>

\* first path segments: handles, reserved words in several spellings, blanks
\* and underscores
USERNAME_SEGMENTS ==
    << <<"S","o","m","e",".","U","s","e","r">>, <<"u","s","e","r">>, <<"p","i","n">>, <<"P","I","N">>, <<" ","S","e","a","r","c","h"," ">>, <<"e","X","p","l","o","r","e">>, <<"s","e","t","t","i","n","g","s">>,
       <<"L","O","G","I","N"," ">>, <<"_","s","a","v","e","d">>, <<" ","_","S","a","v","e","d">>, <<"_">>, <<" ">>, <<"p","i","n","s","_","_">>, <<"i","d","e","a","s">>, <<"i","d","e","a">> >>

\* what follows the first segment
USERNAME_TAILS == << <<>>, <<"/">>, <<"/","p","i","n","s","/">>, <<"/","/","_","c","r","e","a","t","e","d","/">> >>

\* the path urlparse gives begins with one slash or more
USERNAME_LEADS == << <<"/">>, <<"/","/">> >>

USERNAME_URLS ==
    {Url("https", USERNAME_HOSTS[h], USERNAME_LEADS[l] \o USERNAME_SEGMENTS[s] \o USERNAME_TAILS[t]) :
        h \in 1..Len(USERNAME_HOSTS), l \in 1..Len(USERNAME_LEADS),
        s \in 1..Len(USERNAME_SEGMENTS), t \in 1..Len(USERNAME_TAILS)}
    \cup {Url("https", <<"w","w","w",".","p","i","n","t","e","r","e","s","t",".","c","o","m">>, <<>>), Url("https", <<"w","w","w",".","p","i","n","t","e","r","e","s","t",".","c","o","m">>, <<"/">>),
          Url("https", <<"w","w","w",".","p","i","n","t","e","r","e","s","t",".","c","o","m">>, <<"/","/","/">>)}

VARIABLES
    n_pc,        \* position in extract_profile_username
    n_url,       \* urlparse(url)
    n_username   \* the value returned, empty for None

nvars == <<n_pc, n_url, n_username>>

NInit ==
    /\ n_pc = "start"
    /\ n_url \in USERNAME_URLS
    /\ n_username = <<>>

NIdle ==
    /\ n_pc = "idle"
    /\ n_url = NoUrl
    /\ n_username = <<>>

(***************************************************************************)
(* workers/download_worker.py                                              *)
(***************************************************************************)
\* PIN_PATH_RE = ^/pin/\d+/?$ matched without regard to case
PinPathMatch(path) ==
    /\ Len(path) > 5
    /\ Lower(SubSeq(path, 1, 5)) = <<"/","p","i","n","/">>
    /\ path[6] \in Digits
    /\ \A j \in 6..(Len(path) - 1) : path[j] \in Digits
    /\ path[Len(path)] \in Digits \cup {"/"}

\* is_pin_url as it would be with the short-link test alone
IsPinUrlOfShortHostOnly(host, path) == host \in PIN_SHORT_HOSTS

\* is_pin_url for the lowered host
IsPinUrlOfHost(host, path) ==
    IF host \in PIN_SHORT_HOSTS THEN TRUE
    ELSE IF ~IsPinterestHost(host) THEN FALSE
    ELSE PinPathMatch(path)

\* is_pin_url
IsPinUrl(url) == \E host \in {Lower(url.netloc)} : IsPinUrlOfHost(host, url.path)

\* is_profile_url
IsProfileUrl(url) ==
    IF IsPinUrl(url) THEN FALSE ELSE ExtractProfileUsername(url) # <<>>

\* the exceptions _build_download_queue turns into a note (line 148)
EXPANSION_ERRORS == {"ProfileCollectionError", "RequestException"}

\* the exceptions run turns into a Failed row (line 96)
PER_ITEM_ERRORS == {"ResolutionError", "DownloadError", "RequestException"}

\* the exceptions _download_single passes over (line 176)
CANDIDATE_ERRORS == {"DownloadError", "RequestException"}

\* line 148 with no except clause that matches
IsExpansionErrorNever(error) == FALSE

\* line 148
IsExpansionError(error) == error \in EXPANSION_ERRORS

\* line 96 with a clause that catches every exception
IsPerItemErrorAlways(error) == TRUE

\* line 96
IsPerItemError(error) == error \in PER_ITEM_ERRORS

\* line 177 keeping the first message instead of the latest
LastErrorKeepsFirst(last_error, message) == IF last_error = "" THEN message ELSE last_error

\* line 177
LastError(last_error, message) == message

\* lines 62-64 without the test of the flag
LoopEndsIgnoringFlag(index, total, cancelled) == index = total

\* lines 62-64: the list is used up, or the flag is set
LoopEnds(index, total, cancelled) == index = total \/ cancelled

NO_CANDIDATE_MESSAGE == "No downloadable media candidate found."

\* line 180: last_error or "No downloadable media candidate found."
LastErrorOrDefault(last_error) == IF last_error = "" THEN NO_CANDIDATE_MESSAGE ELSE last_error

\* _dedupe_urls of the worker, lines 182-190
RECURSIVE WorkerDedupeFirst(_, _)
WorkerDedupeFirst(urls, n) ==
    IF n = 0 THEN <<>>
    ELSE IF urls[n] \in {urls[j] : j \in 1..(n - 1)} THEN WorkerDedupeFirst(urls, n - 1)
    ELSE Append(WorkerDedupeFirst(urls, n - 1), urls[n])

WorkerDedupeUrls(urls) == WorkerDedupeFirst(urls, Len(urls))

(***************************************************************************)
(* The events DownloadWorker emits                                         *)
(***************************************************************************)
Event(kind, index, total, status, media, error, success, failed, cancelled) ==
    [kind |-> kind, index |-> index, total |-> total, status |-> status, media |-> media,
     error |-> error, success |-> success, failed |-> failed, cancelled |-> cancelled]

\* queue_prepared.emit(queue_payload)
QueuePrepared(total) == Event("queue_prepared", 0, total, "", "", "", 0, 0, FALSE)

\* progress_changed.emit(index, total)
Progress(index, total) == Event("progress", index, total, "", "", "", 0, 0, FALSE)

\* row_updated.emit({...})
Row(index, status, media, error) == Event("row", index, 0, status, media, error, 0, 0, FALSE)

\* completed.emit(summary)
Completed(summary) ==
    Event("completed", 0, summary.total, "", "", "", summary.success, summary.failed,
          summary.cancelled)

\* crashed.emit(str(exc))
Crashed(error) == Event("crashed", 0, 0, "", "", error, 0, 0, FALSE)

\* the summary with the two counts under each other's key
SummaryCountsSwapped(total, success, failed, cancelled) ==
    [total |-> total, success |-> failed, failed |-> success, cancelled |-> cancelled]

\* the summary dictionaries of lines 52-58 and 112-119
Summary(total, success, failed, cancelled) ==
    [total |-> total, success |-> success, failed |-> failed, cancelled |-> cancelled]

NoSummary == Summary(0, 0, 0, FALSE)

\* progress first, the row after it
ItemEndEventsSwapped(index, total, status, media, error) ==
    << Progress(index, total), Row(index, status, media, error) >>

\* lines 85-110: the row of the outcome, then the progress tick
ItemEndEvents(index, total, status, media, error) ==
    << Row(index, status, media, error), Progress(index, total) >>

(***************************************************************************)
(* The inputs of one DownloadWorker.run                                    *)
(***************************************************************************)
\* the longest source_urls list
MaxSources == 2

SOURCE_PIN == Url("https", <<"w","w","w",".","p","i","n","t","e","r","e","s","t",".","c","o","m">>, <<"/","p","i","n","/","1","/">>)
SOURCE_PROFILE_A == Url("https", <<"w","w","w",".","p","i","n","t","e","r","e","s","t",".","c","o","m">>, <<"/","u","s","e","r","/">>)
SOURCE_PROFILE_B == Url("https", <<"p","i","n","t","e","r","e","s","t",".","c","o",".","u","k">>, <<"/","O","t","h","e","r","/","_","s","a","v","e","d","/">>)

\* pin 1 as parse_url_lines hands over the line pinterest.com/pin/1
SOURCE_PIN_BARE == Url("https", <<"p","i","n","t","e","r","e","s","t",".","c","o","m">>, <<"/","p","i","n","/","1">>)

SOURCES == {SOURCE_PIN, SOURCE_PIN_BARE, SOURCE_PROFILE_A, SOURCE_PROFILE_B}

\* source_urls: parse_url_lines hands over a list without duplicates
SOURCE_LISTS ==
    UNION {{list \in [1..n -> SOURCES] : \A i, j \in 1..n : list[i] = list[j] => i = j} :
              n \in 0..MaxSources}

\* what collect_profile_pin_urls can end with: a result that holds pins, or
\* one of the exceptions it raises
Collected(error, pin_urls) == [error |-> error, pin_urls |-> pin_urls]

COLLECT_OUTCOMES ==
    { Collected("", << CanonicalPinUrl(<<"1">>), CanonicalPinUrl(<<"3">>) >>),
      Collected("", << CanonicalPinUrl(<<"3">>) >>),
      Collected("ProfileCollectionError", <<>>),
      Collected("RequestException", <<>>),
      Collected("AttributeError", <<>>) }

\* what resolve_media_candidates can end with: a ranked list that holds a
\* candidate, or one of the exceptions it raises
Resolved(error, candidates) == [error |-> error, candidates |-> candidates]

RESOLVE_OUTCOMES ==
    { Resolved("", << "video.mp4" >>),
      Resolved("", << "originals.jpg", "736x.jpg" >>),
      Resolved("ResolutionError", <<>>),
      Resolved("RequestException", <<>>),
      Resolved("AttributeError", <<>>) }

\* what MediaDownloader.download can end with: the file saved, DownloadError
\* from the write, an exception of requests with or without a message, or
\* OSError from ensure_directory
Downloaded(error, message) == [error |-> error, message |-> message]

DOWNLOAD_OUTCOMES ==
    { Downloaded("", ""),
      Downloaded("DownloadError", "Failed to write file: disk full"),
      Downloaded("RequestException", ""),
      Downloaded("OSError", "Permission denied") }

\* str(exc) of the exceptions the collector and the resolver raise
MessageOf(error) ==
    IF error = "ResolutionError" THEN "No downloadable media found on this pin."
    ELSE IF error = "RequestException" THEN "Connection timed out"
    ELSE IF error = "AttributeError" THEN "'list' object has no attribute 'get'"
    ELSE error

(***************************************************************************)
(* State of one DownloadWorker.run                                         *)
(***************************************************************************)
VARIABLES
    w_pc,          \* position in run
    w_sources,     \* source_urls
    w_cancelled,   \* _cancelled
    w_i,           \* the number of source URLs the queue loop has taken
    w_expanded,    \* expanded_pin_urls
    w_notes,       \* notes
    w_discovered,  \* discovered_total
    w_outcomes,    \* how each source URL taken so far was expanded
    w_queue,       \* pin_urls
    w_index,       \* index
    w_candidates,  \* candidate_media
    w_attempts,    \* the download calls made for the item in hand
    w_last_error,  \* last_error
    w_raised,      \* the exception that reached run from the call in hand
    w_success,     \* success_count
    w_failed,      \* failed_count
    w_summary,     \* summary
    w_events,      \* the signals emitted, in order
    w_stopped      \* when stop() set the flag: the items taken, the summary built

wvars == <<w_pc, w_sources, w_cancelled, w_i, w_expanded, w_notes, w_discovered,
           w_outcomes, w_queue, w_index, w_candidates, w_attempts, w_last_error,
           w_raised, w_success, w_failed, w_summary, w_events, w_stopped>>

\* stop() was not called
NotStopped == [called |-> FALSE, index |-> 0, summarised |-> FALSE]

WBlank ==
    /\ w_cancelled = FALSE
    /\ w_i = 0
    /\ w_expanded = <<>>
    /\ w_notes = <<>>
    /\ w_discovered = 0
    /\ w_outcomes = <<>>
    /\ w_queue = <<>>
    /\ w_index = 0
    /\ w_candidates = <<>>
    /\ w_attempts = <<>>
    /\ w_last_error = ""
    /\ w_raised = ""
    /\ w_success = 0
    /\ w_failed = 0
    /\ w_summary = NoSummary
    /\ w_events = <<>>
    /\ w_stopped = NotStopped

WInit ==
    /\ w_pc = "build"
    /\ w_sources \in SOURCE_LISTS
    /\ WBlank

WIdle ==
    /\ w_pc = "idle"
    /\ w_sources = <<>>
    /\ WBlank

(***************************************************************************)
(* PinterestResolver._normalize_candidate on strings                       *)
(***************************************************************************)
\* the characters html.unescape puts for the names below
COPYRIGHT_SIGN == "U+00A9"
REGISTERED_SIGN == "U+00AE"

\* the names of html.entities.html5 the inputs can hold; the names without
\* ";" are in that table too
ENTITY_NAMES ==
    { <<"a","m","p",";">>, <<"a","m","p">>, <<"c","o","p","y",";">>, <<"c","o","p","y">>, <<"r","e","g",";">>, <<"r","e","g">>, <<"l","t",";">>, <<"l","t">>, <<"q","u","o","t",";">>, <<"q","u","o","t">> }

EntityChar(name) ==
    CASE name \in { <<"a","m","p",";">>, <<"a","m","p">> } -> "&"
      [] name \in { <<"c","o","p","y",";">>, <<"c","o","p","y">> } -> COPYRIGHT_SIGN
      [] name \in { <<"r","e","g",";">>, <<"r","e","g">> } -> REGISTERED_SIGN
      [] name \in { <<"l","t",";">>, <<"l","t">> } -> "<"
      [] OTHER -> "\""

\* the characters a named reference cannot hold: [^\t\n\f <&#;]
NAME_STOPS == {" ", "<", "&", "#", ";"}

\* the last position of the run [^\t\n\f <&#;]{1,32} that starts at from;
\* from - 1 when the run is empty
NameRunEnd(s, from) ==
    IF \E j \in from..Len(s) : j < from + 32 /\ s[j] \in NAME_STOPS
    THEN (CHOOSE j \in from..Len(s) :
             /\ s[j] \in NAME_STOPS
             /\ \A k \in from..(j - 1) : s[k] \notin NAME_STOPS) - 1
    ELSE IF Len(s) < from + 32 THEN Len(s) ELSE from + 31

\* the run and the ";" after it, if any
CharrefEnd(s, run_end) ==
    IF run_end < Len(s) /\ s[run_end + 1] = ";" THEN run_end + 1 ELSE run_end

\* the longest proper prefix of at least two characters that is a name
LongestNamePrefix(name) ==
    IF \E x \in 2..(Len(name) - 1) : SubSeq(name, 1, x) \in ENTITY_NAMES
    THEN CHOOSE x \in 2..(Len(name) - 1) :
            /\ SubSeq(name, 1, x) \in ENTITY_NAMES
            /\ \A y \in (x + 1)..(Len(name) - 1) : SubSeq(name, 1, y) \notin ENTITY_NAMES
    ELSE 0

\* _replace_charref of the standard library for a named reference
ReplaceCharref(name) ==
    IF name \in ENTITY_NAMES THEN << EntityChar(name) >>
    ELSE IF LongestNamePrefix(name) > 0
    THEN << EntityChar(SubSeq(name, 1, LongestNamePrefix(name))) >>
         \o SubSeq(name, LongestNamePrefix(name) + 1, Len(name))
    ELSE <<"&">> \o name

RECURSIVE HtmlUnescapeFrom(_, _)
\* an "&" at position i - 1 and the reference that ends at position end
HtmlUnescapeRef(s, i, end) ==
    IF end < i THEN <<"&">> \o HtmlUnescapeFrom(s, i)
    ELSE ReplaceCharref(SubSeq(s, i, end)) \o HtmlUnescapeFrom(s, end + 1)

\* html.unescape of s from position i on; numeric references (&#...;) are
\* not among the inputs
HtmlUnescapeFrom(s, i) ==
    IF i > Len(s) THEN <<>>
    ELSE IF s[i] # "&" THEN <<s[i]>> \o HtmlUnescapeFrom(s, i + 1)
    ELSE IF NameRunEnd(s, i + 1) < i + 1 THEN <<"&">> \o HtmlUnescapeFrom(s, i + 1)
    ELSE HtmlUnescapeRef(s, i + 1, CharrefEnd(s, NameRunEnd(s, i + 1)))

\* html.unescape
HtmlUnescape(s) == HtmlUnescapeFrom(s, 1)

RECURSIVE ReplaceFrom(_, _, _, _)
ReplaceFrom(s, i, old, new) ==
    IF i > Len(s) THEN <<>>
    ELSE IF i + Len(old) - 1 <= Len(s) /\ SubSeq(s, i, i + Len(old) - 1) = old
    THEN new \o ReplaceFrom(s, i + Len(old), old, new)
    ELSE <<s[i]>> \o ReplaceFrom(s, i + 1, old, new)

\* str.replace(old, new)
Replace(s, old, new) == ReplaceFrom(s, 1, old, new)

\* lines 432-437
ReplaceEscapes(candidate) ==
    Replace(Replace(Replace(Replace(candidate, <<"\\", "/">>, <<"/">>),
                            <<"\\", "u", "0", "0", "2", "F">>, <<"/">>),
                    <<"\\", "u", "0", "0", "2", "6">>, <<"&">>),
            <<"&","a","m","p",";">>, <<"&">>)

RECURSIVE LStripChars(_, _)
LStripChars(s, chars) ==
    IF Len(s) > 0 /\ s[1] \in chars THEN LStripChars(Tail(s), chars) ELSE s

RECURSIVE RStripChars(_, _)
\* str.rstrip(chars)
RStripChars(s, chars) ==
    IF Len(s) > 0 /\ s[Len(s)] \in chars THEN RStripChars(SubSeq(s, 1, Len(s) - 1), chars)
    ELSE s

\* str.strip(chars)
StripChars(s, chars) == RStripChars(LStripChars(s, chars), chars)

\* lines 440-441
WithHttpsIfSchemeless(candidate) ==
    IF HasNetloc(candidate) THEN <<"h","t","t","p","s",":">> \o candidate ELSE candidate

SchemeText(scheme) ==
    CASE scheme = "http" -> <<"h","t","t","p">>
      [] scheme = "https" -> <<"h","t","t","p","s">>
      [] scheme = "ftp" -> <<"f","t","p">>
      [] OTHER -> <<>>

\* urlunsplit for a scheme of uses_netloc (http, https, ftp)
UrlUnsplit(scheme, netloc, path, query, fragment) ==
    SchemeText(scheme) \o <<":">>
    \o (IF Len(netloc) > 0 \/ ~HasNetloc(path)
        THEN <<"/","/">> \o netloc \o (IF Len(path) > 0 /\ path[1] # "/" THEN <<"/">> ELSE <<>>)
        ELSE <<>>)
    \o path
    \o (IF Len(query) > 0 THEN <<"?">> \o query ELSE <<>>)
    \o (IF Len(fragment) > 0 THEN <<"#">> \o fragment ELSE <<>>)

\* bpath.split('/') without its last item when that is not empty
BaseParts(parts) ==
    IF Len(parts[Len(parts)]) > 0 THEN SubSeq(parts, 1, Len(parts) - 1) ELSE parts

\* segments[1:-1] = filter(None, segments[1:-1])
WithoutInnerEmpty(segments) ==
    IF Len(segments) < 3 THEN segments
    ELSE <<segments[1]>>
         \o SelectSeq(SubSeq(segments, 2, Len(segments) - 1), LAMBDA seg : Len(seg) > 0)
         \o <<segments[Len(segments)]>>

\* the segments urljoin resolves
JoinSegments(bpath, path) ==
    IF path[1] = "/" THEN SplitSlash(path)
    ELSE WithoutInnerEmpty(BaseParts(SplitSlash(bpath)) \o SplitSlash(path))

DotStep(resolved_path, seg) ==
    IF seg = <<".",".">>
    THEN (IF Len(resolved_path) = 0 THEN resolved_path
          ELSE SubSeq(resolved_path, 1, Len(resolved_path) - 1))
    ELSE IF seg = <<".">> THEN resolved_path
    ELSE Append(resolved_path, seg)

RECURSIVE ResolveDots(_, _)
\* the loop over segments: resolved_path after the first n of them
ResolveDots(segments, n) ==
    IF n = 0 THEN <<>> ELSE DotStep(ResolveDots(segments, n - 1), segments[n])

ResolvedPath(segments) ==
    IF segments[Len(segments)] \in { <<".">>, <<".",".">> }
    THEN JoinSlash(Append(ResolveDots(segments, Len(segments)), <<>>))
    ELSE JoinSlash(ResolveDots(segments, Len(segments)))

PathOrRoot(path) == IF Len(path) = 0 THEN <<"/">> ELSE path

\* what urljoin gives: the text, or error when urlparse raises ValueError
Joined(error, text) == [error |-> error, text |-> text]

\* urljoin once both URLs are parsed; the base has scheme http or https
UrlJoinParsed(b, url, u) ==
    IF u.scheme # "" /\ u.scheme # b.scheme THEN url
    ELSE IF Len(u.netloc) > 0
    THEN UrlUnsplit(b.scheme, u.netloc, u.path, u.query, u.fragment)
    ELSE IF Len(u.path) = 0
    THEN UrlUnsplit(b.scheme, b.netloc, b.path,
                    IF Len(u.query) = 0 THEN b.query ELSE u.query, u.fragment)
    ELSE UrlUnsplit(b.scheme, b.netloc, PathOrRoot(ResolvedPath(JoinSegments(b.path, u.path))),
                    u.query, u.fragment)

\* urljoin(base, url) of the standard library for a base with scheme http or
\* https
UrlJoin(base, url) ==
    IF Len(url) = 0 THEN Joined(FALSE, base)
    ELSE IF UrlParse(url).error THEN Joined(TRUE, <<>>)
    ELSE Joined(FALSE, UrlJoinParsed(UrlParse(base).url, url, UrlParse(url).url))

\* the characters NORMALIZED_URL_RE stops at: [^\s"'<>)\]}]
URL_STOPS == {" ", "\"", "'", "<", ">", ")", "]", "}"}

\* the longest run of characters outside URL_STOPS that starts at from
UrlRunEnd(s, from) ==
    IF \E j \in from..Len(s) : s[j] \in URL_STOPS
    THEN (CHOOSE j \in from..Len(s) :
             /\ s[j] \in URL_STOPS
             /\ \A k \in from..(j - 1) : s[k] \notin URL_STOPS) - 1
    ELSE Len(s)

\* the length of the text https?:// matches at the start, 0 when it does not
SchemePrefixLength(s) ==
    IF Len(s) >= 8 /\ Lower(SubSeq(s, 1, 8)) = <<"h","t","t","p","s",":","/","/">> THEN 8
    ELSE IF Len(s) >= 7 /\ Lower(SubSeq(s, 1, 7)) = <<"h","t","t","p",":","/","/">> THEN 7
    ELSE 0

\* NORMALIZED_URL_RE.match(candidate).group(0); empty when there is no match
MatchNormalizedUrl(s) ==
    IF SchemePrefixLength(s) = 0 THEN <<>>
    ELSE IF UrlRunEnd(s, SchemePrefixLength(s) + 1) <= SchemePrefixLength(s) THEN <<>>
    ELSE SubSeq(s, 1, UrlRunEnd(s, SchemePrefixLength(s) + 1))

\* what _normalize_candidate gives: a URL, None, or the ValueError of urljoin
Normalized(kind, text) == [kind |-> kind, text |-> text]
NormalizedNone == Normalized("none", <<>>)

\* lines 445-453
NormalizeMatched(candidate) ==
    IF Len(candidate) = 0 THEN NormalizedNone
    ELSE IF ~IsValidHttpUrlText(candidate) THEN NormalizedNone
    ELSE Normalized("url", candidate)

\* lines 443-453
NormalizeJoined(joined) ==
    IF joined.error THEN Normalized("ValueError", <<>>)
    ELSE NormalizeMatched(MatchNormalizedUrl(RStripChars(joined.text, {".", ",", ";"})))

\* lines 429-453
NormalizeUnescaped(candidate, base_url) ==
    IF Len(candidate) = 0 THEN NormalizedNone
    ELSE NormalizeJoined(
             UrlJoin(base_url,
                     WithHttpsIfSchemeless(
                         StripChars(ReplaceEscapes(candidate), {"\"", "'", " ", ")", ","}))))

\* _normalize_candidate
NormalizeCandidateText(value, base_url) ==
    NormalizeUnescaped(HtmlUnescape(Strip(value)), base_url)

(***************************************************************************)
(* The raw strings and the state of two _normalize_candidate calls         *)
(***************************************************************************)
X_HEADS ==
    << <<"h","t","t","p","s",":","/","/","i",".","p","i","n","i","m","g",".","c","o","m","/","7","3","6","x","/","a",".","j","p","g">>,
       <<"h","t","t","p","s",":","\\","/","\\","/","i",".","p","i","n","i","m","g",".","c","o","m","\\","/","7","3","6","x","\\","/","a",".","j","p","g">>,
       <<"h","t","t","p","s",":","/","/","i",".","p","i","n","i","m","g",".","c","o","m","/","a","\\","\\","/","b",".","j","p","g">>,
       <<"/","/","i",".","p","i","n","i","m","g",".","c","o","m","/","a",".","j","p","g">>,
       <<"/","x","/",".",".","/","a",".","j","p","g">>,
       <<"b","/",".","/","a",".","j","p","g">>,
       <<"H","T","T","P",":","/","/","I",".","p","i","n","i","m","g",".","c","o","m","/","a",".","j","p","g">>,
       <<"f","t","p",":","/","/","i",".","p","i","n","i","m","g",".","c","o","m","/","a",".","j","p","g">>,
       <<>> >>

X_QUERIES ==
    << <<>>,
       <<"?","a","=","1","&","b","=","2">>,
       <<"?","a","=","1","&","a","m","p",";","b","=","2">>,
       <<"?","a","=","1","\\","u","0","0","2","6","b","=","2">>,
       <<"?","a","=","1","&","a","m","p",";","c","o","p","y","=","2">>,
       <<"?","a","=","1","&","a","m","p",";","a","m","p",";","r","e","g","=","2">>,
       <<"?">> >>

X_TAILS ==
    << <<>>, <<",">>, <<".">>, <<"'">>, <<")","x">>, <<",","]","x">>, <<";", "}", "x">>, <<" ","x">>, <<"#","f">> >>

X_BASES == << <<"h","t","t","p","s",":","/","/","w","w","w",".","p","i","n","t","e","r","e","s","t",".","c","o","m","/","p","i","n","/","1","2","/">>, <<"h","t","t","p",":","/","/","w","w","w",".","p","i","n","t","e","r","e","s","t",".","c","o","m","/","p","i","n","/","1","2","/","?","u","t","m","=","1">> >>

VARIABLES
    x_pc,      \* "start", "once" after the first call, "twice" after the second
    x_value,   \* the raw string
    x_base,    \* base_url
    x_once,    \* _normalize_candidate(value, base_url)
    x_twice    \* _normalize_candidate of that result

xvars == <<x_pc, x_value, x_base, x_once, x_twice>>

XInit ==
    /\ x_pc = "start"
    /\ x_value \in {X_HEADS[h] \o X_QUERIES[q] \o X_TAILS[t] :
                       h \in 1..Len(X_HEADS), q \in 1..Len(X_QUERIES), t \in 1..Len(X_TAILS)}
    /\ x_base \in Range(X_BASES)
    /\ x_once = NormalizedNone
    /\ x_twice = NormalizedNone

XIdle ==
    /\ x_pc = "idle"
    /\ x_value = <<>>
    /\ x_base = <<>>
    /\ x_once = NormalizedNone
    /\ x_twice = NormalizedNone

(***************************************************************************)
(* One input line through normalize_url, the classifier and the pin id     *)
(***************************************************************************)
\* the hosts of the pinterest domain family among the inputs
PLATFORM_HOSTS == { <<"p","i","n","t","e","r","e","s","t",".","c","o","m">>, <<"w","w","w",".","p","i","n","t","e","r","e","s","t",".","c","o","m">>, <<"P","i","n","t","e","r","e","s","t",".","C","O",".","U","K">> }

K_HOSTS == << <<"p","i","n","t","e","r","e","s","t",".","c","o","m">>, <<"w","w","w",".","p","i","n","t","e","r","e","s","t",".","c","o","m">>, <<"P","i","n","t","e","r","e","s","t",".","C","O",".","U","K">>, <<"p","i","n",".","i","t">>,
              <<"n","o","t","p","i","n","t","e","r","e","s","t",".","c","o","m">>, <<"p","i","n","t","e","r","e","s","t",".","c","o","m",".","e","x","a","m","p","l","e",".","o","r","g">> >>

PIN_DIGITS == { <<"1","2","3","4","5","6","7","8","9","0","1","2","3","4","5","6","7","8">>, <<"7">> }

K_PATHS ==
    << <<"/","p","i","n","/","1","2","3","4","5","6","7","8","9","0","1","2","3","4","5","6","7","8","/">>, <<"/","p","i","n","/","7","/">>, <<"/","p","i","n","/","7">>, <<"/","P","I","N","/","7","/">>, <<"/","p","i","n","/","7","a","/">>,
       <<"/","p","i","n","/","7","/","s","e","n","t","/">>, <<"/","p","i","n","/">>, <<"/","u","s","e","r","/">>, <<"/","u","s","e","r","/","p","i","n","/","7","/">>, <<"/","i","d","e","a","s","/">>, <<"/","_","s","a","v","e","d","/">>,
       <<"/">>, <<>> >>

K_SCHEMES == << <<>>, <<"h","t","t","p","s",":","/","/">>, <<"h","t","t","p",":","/","/">>, <<"f","t","p",":","/","/">> >>

\* what is_pin_url and is_profile_url say, or the ValueError of urlparse
Classified(error, is_pin, is_profile) ==
    [error |-> error, is_pin |-> is_pin, is_profile |-> is_profile]

NotClassified == Classified(FALSE, FALSE, FALSE)

\* is_pin_url(url) and is_profile_url(url) of a string
Classify(parsed) ==
    IF parsed.error THEN Classified(TRUE, FALSE, FALSE)
    ELSE Classified(FALSE, IsPinUrl(parsed.url), IsProfileUrl(parsed.url))

VARIABLES
    k_pc,          \* "start", then "done"
    k_scheme,      \* the three parts of the raw text
    k_host,
    k_path,
    k_normalized,  \* normalize_url(raw)
    k_class,       \* is_pin_url and is_profile_url of the normalized text
    k_pin_id       \* _extract_pin_id of the normalized text

kvars == <<k_pc, k_scheme, k_host, k_path, k_normalized, k_class, k_pin_id>>

\* the raw text
KRaw == k_scheme \o k_host \o k_path

KInit ==
    /\ k_pc = "start"
    /\ k_scheme \in Range(K_SCHEMES)
    /\ k_host \in Range(K_HOSTS)
    /\ k_path \in Range(K_PATHS)
    /\ k_normalized = <<>>
    /\ k_class = NotClassified
    /\ k_pin_id = <<>>

KIdle ==
    /\ k_pc = "idle"
    /\ k_scheme = <<>>
    /\ k_host = <<>>
    /\ k_path = <<>>
    /\ k_normalized = <<>>
    /\ k_class = NotClassified
    /\ k_pin_id = <<>>

(***************************************************************************)
(* MainWindow: the Start button, the worker references, the batches        *)
(***************************************************************************)
\* the batches one window starts
MaxBatches == 4

BATCHES == 1..MaxBatches

\* a call queued for the window's thread
Call(slot, batch) == [slot |-> slot, batch |-> batch]

VARIABLES
    m_worker_thread,  \* self.worker_thread: the batch of the QThread, 0 for None
    m_worker,         \* self.worker: the batch of the DownloadWorker, 0 for None
    m_start_enabled,  \* start_button.isEnabled()
    m_thread,         \* per batch: the QThread is "new", "running", "quitting", "finished"
    m_run,            \* per batch: DownloadWorker.run is "waiting", "executing", "ended"
    m_calls,          \* the slot calls queued for the window's thread, oldest first
    m_modal           \* the QMessageBox of _handle_crash is open

mvars == <<m_worker_thread, m_worker, m_start_enabled, m_thread, m_run, m_calls, m_modal>>

\* MainWindow.__init__, lines 39-40, and the button as _build_ui makes it
MInit ==
    /\ m_worker_thread = 0
    /\ m_worker = 0
    /\ m_start_enabled = TRUE
    /\ m_thread = [b \in BATCHES |-> "new"]
    /\ m_run = [b \in BATCHES |-> "waiting"]
    /\ m_calls = <<>>
    /\ m_modal = FALSE

MIdle ==
    /\ m_worker_thread = 0
    /\ m_worker = 0
    /\ m_start_enabled = TRUE
    /\ m_thread = [b \in BATCHES |-> "idle"]
    /\ m_run = [b \in BATCHES |-> "idle"]
    /\ m_calls = <<>>
    /\ m_modal = FALSE

\* QThread.isRunning(): true from start() until the thread begins to finish
IsRunning(batch) == m_thread[batch] \in {"running", "quitting"}


(***************************************************************************)
(* resolve_media_candidates, one action per stretch between HTTP requests  *)
(***************************************************************************)
\* lines 76-83 and 96-103: a fast path returns what it builds
RFastPath(fast) ==
    /\ RReturn(fast.candidates)
    /\ r_found' = r_found \cup fast.built

\* lines 70-83: validation and the direct fast path
RStart ==
    /\ r_pc = "start"
    /\ IF ~IsValidHttpUrl(r_url)
       THEN /\ RRaise("ResolutionError")
            /\ UNCHANGED <<r_found, r_empty, r_final>>
       ELSE IF IsDirectMedia(r_url)
       THEN /\ RFastPath(FastPath(r_url, "direct"))
            /\ UNCHANGED <<r_empty, r_final>>
       ELSE /\ RGoto("get_page")
            /\ r_empty' = r_empty \cup {"direct"}
            /\ UNCHANGED <<r_found, r_final>>
    /\ UNCHANGED <<r_url, r_body, r_pin_id, r_requests, r_last>>
    /\ UNCHANGED <<cvars, pvars, nvars, wvars, xvars, kvars, mvars>>

\* the three lookups of lines 105-109 with the page body asked first
FirstNonEmptyBodyFirst(a, b, c) == IF c # <<>> THEN c ELSE IF b # <<>> THEN b ELSE a

\* lines 105-109: each later lookup runs only when the earlier ones found nothing
FirstNonEmpty(a, b, c) == IF a # <<>> THEN a ELSE IF b # <<>> THEN b ELSE c

\* lines 105-109: the first pin id found in the final URL, the input URL, the
\* page body
PinIdFromPage(final_url, normalized, body) ==
    FirstNonEmpty(ExtractPinId(final_url.path), ExtractPinId(normalized.path),
                  ExtractPinId(body.pin_text))

\* lines 94-110 for a page that was fetched
RPageFetched(final_url, body) ==
    /\ r_final' = final_url
    /\ r_body' = body
    /\ IF IsDirectMedia(final_url)
       THEN /\ RFastPath(FastPath(final_url, "redirect"))
            /\ UNCHANGED <<r_pin_id, r_empty>>
       ELSE /\ r_pin_id' = PinIdFromPage(final_url, r_url, body)
            /\ r_empty' = r_empty \cup {"redirect"}
            /\ RGoto(IF r_pin_id' = <<>> THEN "oembed_id" ELSE "api")
            /\ UNCHANGED r_found

\* lines 85-110: the page fetch, the redirect fast path, the pin id
RGetPage ==
    /\ r_pc = "get_page"
    /\ r_requests' = Append(r_requests, "page")
    /\ \/ /\ RRaise("RequestException")
          /\ UNCHANGED <<r_final, r_body, r_pin_id, r_found, r_empty>>
       \/ \E f \in 1..Len(FINAL_URLS), b \in 1..Len(BODIES) :
             RPageFetched(IF FINAL_URLS[f] = NoUrl THEN r_url ELSE FINAL_URLS[f],
                          BODIES[b])
    /\ UNCHANGED <<r_url, r_last>>
    /\ UNCHANGED <<cvars, pvars, nvars, wvars, xvars, kvars, mvars>>

ROembedIdAnswered(got) ==
    IF got.error # ""
    THEN /\ RRaise(got.error)
         /\ UNCHANGED <<r_pin_id, r_empty>>
    ELSE /\ r_pin_id' = got.pin_id
         /\ IF got.pin_id = <<>>
            THEN /\ RGoto("html")
                 /\ r_empty' = r_empty \cup {"api"}
            ELSE /\ RGoto("api")
                 /\ UNCHANGED r_empty

\* line 111: _resolve_pin_id_via_oembed
ROembedId ==
    /\ r_pc = "oembed_id"
    /\ r_requests' = Append(r_requests, "oembed")
    /\ \E a \in 1..Len(OEMBED_ANSWERS) :
          /\ r_last' = OEMBED_ANSWERS[a]
          /\ ROembedIdAnswered(ResolvePinIdViaOembed(OEMBED_ANSWERS[a]))
    /\ UNCHANGED <<r_url, r_final, r_body, r_found>>
    /\ UNCHANGED <<cvars, pvars, nvars, wvars, xvars, kvars, mvars>>

RApiAnswered(got) ==
    IF got.error # ""
    THEN /\ RRaise(got.error)
         /\ UNCHANGED <<r_found, r_empty>>
    ELSE /\ r_found' = r_found \cup got.built
         /\ IF Len(got.candidates) > 0
            THEN /\ RReturn(SortAndDedupe(got.candidates))
                 /\ UNCHANGED r_empty
            ELSE /\ RGoto("html")
                 /\ r_empty' = r_empty \cup {"api"}

\* lines 113-117: the pin info endpoint
RFetchPinApi ==
    /\ r_pc = "api"
    /\ r_requests' = Append(r_requests, "api")
    /\ \E a \in 1..Len(API_ANSWERS) :
          /\ r_last' = API_ANSWERS[a]
          /\ RApiAnswered(FetchPinApiCandidates(API_ANSWERS[a]))
    /\ UNCHANGED <<r_url, r_final, r_body, r_pin_id>>
    /\ UNCHANGED <<cvars, pvars, nvars, wvars, xvars, kvars, mvars>>

\* the end of the call as it would be without the check of lines 131-132
HtmlOutcomeWithoutCheck(deduped) == Outcome("", Harvest(deduped, {}))

\* lines 131-133: an empty list is an error, never a result
HtmlOutcome(deduped) ==
    IF Len(deduped) = 0 THEN Outcome("ResolutionError", NoHarvest)
    ELSE Outcome("", Harvest(deduped, {}))

\* lines 119-120 once the page is scraped and the oEmbed probe has answered
HtmlCandidates(html, oembed) == Extend(html, Harvest(oembed.candidates, oembed.built))

\* lines 122-133
RHtmlFinish(error, html_candidates, out) ==
    /\ r_found' = r_found \cup html_candidates.built
    /\ IF error # "" THEN RRaise(error) /\ UNCHANGED r_empty
       ELSE IF out.error # "" THEN RRaise(out.error) /\ r_empty' = r_empty \cup {"html"}
       ELSE RReturn(out.candidates) /\ UNCHANGED r_empty

RHtmlAnswered(html, oembed) ==
    RHtmlFinish(oembed.error, HtmlCandidates(html, oembed),
                HtmlOutcome(PreferredOnly(SortAndDedupe(
                    HtmlCandidates(html, oembed).candidates))))

\* lines 119-133: HTML scraping, the oEmbed media probe, the host filter
RHtmlFallback ==
    /\ r_pc = "html"
    /\ r_requests' = Append(r_requests, "oembed")
    /\ \E a \in 1..Len(OEMBED_ANSWERS) :
          /\ r_last' = OEMBED_ANSWERS[a]
          /\ RHtmlAnswered(ExtractHtmlCandidates(r_body,
                                                 ExtractLdjsonCandidates(r_body.ldjson)),
                           FetchOembedMediaCandidates(OEMBED_ANSWERS[a]))
    /\ UNCHANGED <<r_url, r_final, r_body, r_pin_id>>
    /\ UNCHANGED <<cvars, pvars, nvars, wvars, xvars, kvars, mvars>>

RNext == RStart \/ RGetPage \/ ROembedId \/ RFetchPinApi \/ RHtmlFallback

CRaise(error, message) ==
    /\ c_pc' = "raised"
    /\ c_error' = error
    /\ c_message' = message
    /\ c_result' = NoResult

\* lines 78-83 and 112-117
CReturn(pin_urls) ==
    /\ c_pc' = "returned"
    /\ c_result' = ProfileCollectionResult(CanonicalProfileUrl(c_username), c_username,
                                           pin_urls, Len(pin_urls))
    /\ UNCHANGED <<c_error, c_message>>

CGoto(pc) ==
    /\ c_pc' = pc
    /\ UNCHANGED <<c_result, c_error, c_message>>

\* lines 47-56: validation and the username
CStart ==
    /\ c_pc = "start"
    /\ IF ~IsValidHttpUrl(c_url)
       THEN /\ CRaise("ProfileCollectionError", "Invalid profile URL format.")
            /\ UNCHANGED c_username
       ELSE \E username \in {ExtractProfileUsername(c_url)} :
               IF Len(username) = 0
               THEN /\ CRaise("ProfileCollectionError",
                              "Could not detect Pinterest profile username from this URL.")
                    /\ UNCHANGED c_username
               ELSE /\ CGoto("get_profile")
                    /\ c_username' = username
    /\ UNCHANGED <<c_url, c_max_pins, c_page, c_initial, c_collected, c_bookmark,
                   c_seen, c_sent, c_last>>
    /\ UNCHANGED <<rvars, pvars, nvars, wvars, xvars, kvars, mvars>>

\* lines 72-83: the pins found in the HTML text
CFallback(fallback) ==
    /\ c_collected' = fallback
    /\ UNCHANGED <<c_initial, c_bookmark>>
    /\ IF Len(fallback) = 0
       THEN CRaise("ProfileCollectionError", "No pins were detected on this profile.")
       ELSE \E deduped \in {DedupeUrls(fallback)} : CReturn(Truncated(deduped, c_max_pins))

\* lines 85-86
CInitialEntry(initial_entry, collected) ==
    /\ c_collected' = collected
    /\ c_initial' = collected
    /\ c_bookmark' = DictGet(initial_entry, <<"n","e","x","t","B","o","o","k","m","a","r","k">>)
    /\ CGoto("loop")

\* lines 70-86
CInitialData(page, initial_entry) ==
    IF ~Truthy(initial_entry) THEN CFallback(ExtractPinUrlsFromHtml(page.text))
    ELSE CInitialEntry(initial_entry,
                       ExtractPinUrlsFromResourceData(DictGet(initial_entry, <<"d","a","t","a">>)))

\* lines 66-86 for the page the GET brought
CProfileFetched(page, initial_data) ==
    /\ c_page' = page
    /\ IF ~Truthy(initial_data)
       THEN /\ CRaise("ProfileCollectionError",
                      "Could not parse profile data from Pinterest page.")
            /\ UNCHANGED <<c_initial, c_collected, c_bookmark>>
       ELSE CInitialData(page, ExtractUserPinsEntry(initial_data))

\* lines 58-86: the GET of the profile page, the initial props, the fallback
CGetProfile ==
    /\ c_pc = "get_profile"
    /\ \/ /\ CRaise("RequestException", "")
          /\ UNCHANGED <<c_page, c_initial, c_collected, c_bookmark>>
       \/ /\ CRaise("HTTPError", "")
          /\ UNCHANGED <<c_page, c_initial, c_collected, c_bookmark>>
       \/ \E p \in 1..Len(PAGES) : CProfileFetched(PAGES[p], ParseInitialProps(PAGES[p]))
    /\ UNCHANGED <<c_url, c_max_pins, c_username, c_seen, c_sent, c_last>>
    /\ UNCHANGED <<rvars, pvars, nvars, wvars, xvars, kvars, mvars>>

\* line 89 and lines 90-91: the loop goes on to another request
GoesOn ==
    /\ CanContinuePagination(c_bookmark, c_max_pins, Len(c_collected))
    /\ ~AlreadySeen(c_bookmark, c_seen)

\* lines 94-104 once _fetch_user_pins_page is back
CPageAnswered(got) ==
    IF got.error # ""
    THEN /\ CRaise(got.error, "")
         /\ UNCHANGED <<c_collected, c_bookmark>>
    ELSE IF Len(got.page_data.items) = 0
    THEN /\ CGoto("finish")
         /\ UNCHANGED <<c_collected, c_bookmark>>
    ELSE /\ CGoto("loop")
         /\ c_collected' = c_collected \o ExtractPinUrlsFromResourceData(got.page_data)
         /\ c_bookmark' = got.bookmark

\* lines 94-104 for one answer of the endpoint
CAnswered(answer) ==
    /\ c_last' = answer
    /\ CPageAnswered(FetchUserPinsPage(answer))

\* lines 89-104: one turn of the pagination loop that sends a request
CPaginate ==
    /\ c_pc = "loop"
    /\ GoesOn
    /\ Len(c_sent) < MaxRequests
    /\ c_seen' = SeenBookmarksAdd(c_seen, c_bookmark)
    /\ c_sent' = Append(c_sent, StrText(c_bookmark))
    /\ \/ \E a \in 1..Len(BARE_ANSWERS) : CAnswered(BARE_ANSWERS[a])
       \/ \E r \in 1..Len(PAGE_ROWS), b \in 1..Len(BOOKMARKS) :
             CAnswered(HttpAnswer(200, "json", ResourceResponse(PAGE_ROWS[r], BOOKMARKS[b])))
    /\ UNCHANGED <<c_url, c_max_pins, c_username, c_page, c_initial>>
    /\ UNCHANGED <<rvars, pvars, nvars, wvars, xvars, kvars, mvars>>

\* lines 109-117
CResult(deduped) ==
    IF Len(deduped) = 0
    THEN CRaise("ProfileCollectionError", "No downloadable pins found on this profile.")
    ELSE CReturn(deduped)

\* lines 89-91 and 106-117: the loop is over, the result is made
CFinish ==
    /\ \/ c_pc = "finish"
       \/ c_pc = "loop" /\ ~GoesOn
    /\ \E deduped \in {DedupeUrls(c_collected)} : CResult(Truncated(deduped, c_max_pins))
    /\ UNCHANGED <<c_url, c_max_pins, c_username, c_page, c_initial, c_collected,
                   c_bookmark, c_seen, c_sent, c_last>>
    /\ UNCHANGED <<rvars, pvars, nvars, wvars, xvars, kvars, mvars>>

CNext == CStart \/ CGetProfile \/ CPaginate \/ CFinish

(***************************************************************************)
(* parse_url_lines, one action per turn of the loop                        *)
(***************************************************************************)
\* lines 38-40
PValid(normalized) ==
    /\ p_valid' = (IF normalized \in p_seen THEN p_valid ELSE Append(p_valid, normalized))
    /\ p_seen' = p_seen \cup {normalized}
    /\ UNCHANGED p_invalid

\* lines 33-40
PNormalized(item, normalized) ==
    IF ~IsValidHttpUrlText(normalized)
    THEN /\ p_invalid' = InvalidAppend(p_invalid, item)
         /\ UNCHANGED <<p_valid, p_seen>>
    ELSE PValid(normalized)

\* lines 29-40
PItem(item) ==
    IF Len(item) = 0 THEN UNCHANGED <<p_valid, p_invalid, p_seen>>
    ELSE \E normalized \in {NormalizeUrl(item)} : PNormalized(item, normalized)

\* lines 28-40: one line of the text
PLine ==
    /\ p_pc = "loop"
    /\ p_at < Len(p_lines)
    /\ p_at' = p_at + 1
    /\ \E item \in {Strip(p_lines[p_at + 1])} : PItem(item)
    /\ UNCHANGED <<p_pc, p_lines>>
    /\ UNCHANGED <<rvars, cvars, nvars, wvars, xvars, kvars, mvars>>

\* line 42
PReturn ==
    /\ p_pc = "loop"
    /\ p_at = Len(p_lines)
    /\ p_pc' = "returned"
    /\ UNCHANGED <<p_lines, p_at, p_valid, p_invalid, p_seen>>
    /\ UNCHANGED <<rvars, cvars, nvars, wvars, xvars, kvars, mvars>>

PNext == PLine \/ PReturn

(***************************************************************************)
(* extract_profile_username                                                *)
(***************************************************************************)
\* lines 50-67
NExtract ==
    /\ n_pc = "start"
    /\ n_pc' = "returned"
    /\ n_username' = ExtractProfileUsername(n_url)
    /\ UNCHANGED n_url
    /\ UNCHANGED <<rvars, cvars, pvars, wvars, xvars, kvars, mvars>>

(***************************************************************************)
(* DownloadWorker.run, one action per stretch between two reads of the     *)
(* _cancelled flag or two calls of a service                               *)
(***************************************************************************)
Note(kind, source, text) == [kind |-> kind, source |-> source, text |-> text]

\* how one source URL was expanded
Expansion(source, profile, error, pin_urls) ==
    [source |-> source, profile |-> profile, error |-> error, pin_urls |-> pin_urls]

\* one download call of the item in hand
Attempt(candidate, error, message) ==
    [candidate |-> candidate, error |-> error, message |-> message]

\* lines 121-122
WCrash(before, error) ==
    /\ w_pc' = "done"
    /\ w_raised' = error
    /\ w_events' = w_events \o before \o << Crashed(MessageOf(error)) >>

\* lines 133-135: a URL that names no profile is queued as it is
WQueued(source) ==
    /\ w_expanded' = Append(w_expanded, source)
    /\ w_outcomes' = Append(w_outcomes, Expansion(source, FALSE, "", << source >>))
    /\ UNCHANGED <<w_pc, w_notes, w_discovered, w_events, w_raised>>

\* lines 137-149 for what collect_profile_pin_urls ended with
WExpanded(source, got) ==
    /\ w_outcomes' = Append(w_outcomes, Expansion(source, TRUE, got.error, got.pin_urls))
    /\ IF got.error = ""
       THEN /\ w_expanded' = w_expanded \o got.pin_urls
            /\ w_discovered' = w_discovered + Len(got.pin_urls)
            /\ w_notes' = Append(w_notes, Note("discovered", source, ""))
            /\ UNCHANGED <<w_pc, w_events, w_raised>>
       ELSE IF IsExpansionError(got.error)
       THEN /\ w_notes' = Append(w_notes, Note("failed", source, MessageOf(got.error)))
            /\ UNCHANGED <<w_pc, w_expanded, w_discovered, w_events, w_raised>>
       ELSE /\ WCrash(<<>>, got.error)
            /\ UNCHANGED <<w_expanded, w_discovered, w_notes>>

\* lines 133-149
WSource(source) ==
    IF ~IsProfileUrl(source) THEN WQueued(source)
    ELSE \E got \in COLLECT_OUTCOMES : WExpanded(source, got)

\* lines 129-149: one turn of the loop of _build_download_queue
WBuild ==
    /\ w_pc = "build"
    /\ w_i < Len(w_sources)
    /\ IF w_cancelled
       THEN /\ w_pc' = "prepare"
            /\ UNCHANGED <<w_i, w_expanded, w_notes, w_discovered, w_outcomes, w_events,
                           w_raised>>
       ELSE /\ w_i' = w_i + 1
            /\ WSource(w_sources[w_i + 1])
    /\ UNCHANGED <<w_sources, w_cancelled, w_queue, w_index, w_candidates, w_attempts,
                   w_last_error, w_success, w_failed, w_summary, w_stopped>>
    /\ UNCHANGED <<rvars, cvars, pvars, nvars, xvars, kvars, mvars>>

\* lines 43-51 for the queue built
WQueue(pin_urls) ==
    /\ w_queue' = pin_urls
    /\ w_events' = w_events \o << QueuePrepared(Len(pin_urls)), Progress(0, Len(pin_urls)) >>
    /\ w_pc' = (IF Len(pin_urls) = 0 THEN "summary" ELSE "check")

\* lines 151-156 and 43-51: the queue is deduplicated and announced
WPrepared ==
    /\ \/ w_pc = "prepare"
       \/ (w_pc = "build" /\ w_i = Len(w_sources))
    /\ \E deduped \in {WorkerDedupeUrls(w_expanded)} : WQueue(deduped)
    /\ UNCHANGED <<w_sources, w_cancelled, w_i, w_expanded, w_notes, w_discovered,
                   w_outcomes, w_index, w_candidates, w_attempts, w_last_error,
                   w_raised, w_success, w_failed, w_summary, w_stopped>>
    /\ UNCHANGED <<rvars, cvars, pvars, nvars, xvars, kvars, mvars>>

\* lines 62-64: the next item is taken unless the list is used up or the flag
\* is set
WCheck ==
    /\ w_pc = "check"
    /\ IF LoopEnds(w_index, Len(w_queue), w_cancelled)
       THEN /\ w_pc' = "summary"
            /\ UNCHANGED <<w_index, w_candidates, w_attempts, w_last_error, w_raised>>
       ELSE /\ w_pc' = "resolve"
            /\ w_index' = w_index + 1
            /\ w_candidates' = <<>>
            /\ w_attempts' = <<>>
            /\ w_last_error' = ""
            /\ w_raised' = ""
    /\ UNCHANGED <<w_sources, w_cancelled, w_i, w_expanded, w_notes, w_discovered,
                   w_outcomes, w_queue, w_success, w_failed, w_summary, w_events,
                   w_stopped>>
    /\ UNCHANGED <<rvars, cvars, pvars, nvars, xvars, kvars, mvars>>

\* lines 84-95 and 110
WItemDownloaded(before, candidate) ==
    /\ w_events' = w_events \o before
                      \o ItemEndEvents(w_index, Len(w_queue), "Downloaded", candidate, "")
    /\ w_success' = w_success + 1
    /\ w_pc' = "check"
    /\ UNCHANGED <<w_failed, w_raised>>

\* lines 96-110
WItemFailed(before, error, message) ==
    /\ w_raised' = error
    /\ w_events' = w_events \o before
                      \o ItemEndEvents(w_index, Len(w_queue), "Failed", "", message)
    /\ w_failed' = w_failed + 1
    /\ w_pc' = "check"
    /\ UNCHANGED w_success

\* lines 96 and 121: an exception that left _download_single
WRaised(before, error, message) ==
    IF IsPerItemError(error) THEN WItemFailed(before, error, message)
    ELSE /\ WCrash(before, error)
         /\ UNCHANGED <<w_success, w_failed>>

\* lines 66-83 and 164 for what resolve_media_candidates ended with
WResolved(processing, got) ==
    IF got.error = ""
    THEN /\ w_candidates' = got.candidates
         /\ w_events' = w_events \o processing
         /\ w_pc' = "download"
         /\ UNCHANGED <<w_success, w_failed, w_raised>>
    ELSE /\ WRaised(processing, got.error, MessageOf(got.error))
         /\ UNCHANGED w_candidates

\* lines 66-83 and 164: the Processing row, then the resolver
WResolve ==
    /\ w_pc = "resolve"
    /\ \E got \in RESOLVE_OUTCOMES :
          WResolved(<< Row(w_index, "Processing", "", "") >>, got)
    /\ UNCHANGED <<w_sources, w_cancelled, w_i, w_expanded, w_notes, w_discovered,
                   w_outcomes, w_queue, w_index, w_attempts, w_last_error, w_summary,
                   w_stopped>>
    /\ UNCHANGED <<rvars, cvars, pvars, nvars, xvars, kvars, mvars>>

\* lines 176-180 for a download that failed with last_error updated
WCandidateFailed(last_error) ==
    /\ w_last_error' = last_error
    /\ IF Len(w_attempts) + 1 < Len(w_candidates)
       THEN UNCHANGED <<w_pc, w_events, w_success, w_failed, w_raised>>
       ELSE WRaised(<<>>, "DownloadError", LastErrorOrDefault(last_error))

\* lines 167-180 for what MediaDownloader.download ended with
WDownloadEnded(candidate, got) ==
    /\ w_attempts' = Append(w_attempts, Attempt(candidate, got.error, got.message))
    /\ IF got.error = ""
       THEN /\ WItemDownloaded(<<>>, candidate)
            /\ UNCHANGED w_last_error
       ELSE IF got.error \in CANDIDATE_ERRORS
       THEN WCandidateFailed(LastError(w_last_error, got.message))
       ELSE /\ WRaised(<<>>, got.error, got.message)
            /\ UNCHANGED w_last_error

\* lines 167-180: one turn of the loop of _download_single
WDownload ==
    /\ w_pc = "download"
    /\ \E got \in DOWNLOAD_OUTCOMES :
          WDownloadEnded(w_candidates[Len(w_attempts) + 1], got)
    /\ UNCHANGED <<w_sources, w_cancelled, w_i, w_expanded, w_notes, w_discovered,
                   w_outcomes, w_queue, w_index, w_candidates, w_summary, w_stopped>>
    /\ UNCHANGED <<rvars, cvars, pvars, nvars, xvars, kvars, mvars>>

\* lines 52-58 and 112-119: the summary is built, _cancelled is read
WSummary ==
    /\ w_pc = "summary"
    /\ w_summary' = Summary(Len(w_queue), w_success, w_failed, w_cancelled)
    /\ w_pc' = "emit"
    /\ UNCHANGED <<w_sources, w_cancelled, w_i, w_expanded, w_notes, w_discovered,
                   w_outcomes, w_queue, w_index, w_candidates, w_attempts, w_last_error,
                   w_raised, w_success, w_failed, w_events, w_stopped>>
    /\ UNCHANGED <<rvars, cvars, pvars, nvars, xvars, kvars, mvars>>

\* lines 59 and 120
WCompleted ==
    /\ w_pc = "emit"
    /\ w_events' = Append(w_events, Completed(w_summary))
    /\ w_pc' = "done"
    /\ UNCHANGED <<w_sources, w_cancelled, w_i, w_expanded, w_notes, w_discovered,
                   w_outcomes, w_queue, w_index, w_candidates, w_attempts, w_last_error,
                   w_raised, w_success, w_failed, w_summary, w_stopped>>
    /\ UNCHANGED <<rvars, cvars, pvars, nvars, xvars, kvars, mvars>>

\* stop(), called from the thread of the window while run is under way
WStop ==
    /\ w_pc \notin {"idle", "done"}
    /\ ~w_cancelled
    /\ w_cancelled' = TRUE
    /\ w_stopped' = [called |-> TRUE, index |-> w_index, summarised |-> (w_pc = "emit")]
    /\ UNCHANGED <<w_pc, w_sources, w_i, w_expanded, w_notes, w_discovered, w_outcomes,
                   w_queue, w_index, w_candidates, w_attempts, w_last_error, w_raised,
                   w_success, w_failed, w_summary, w_events>>
    /\ UNCHANGED <<rvars, cvars, pvars, nvars, xvars, kvars, mvars>>

WNext ==
    \/ WBuild \/ WPrepared \/ WCheck \/ WResolve \/ WDownload \/ WSummary \/ WCompleted
    \/ WStop

(***************************************************************************)
(* _normalize_candidate applied to a raw string and then to its result     *)
(***************************************************************************)
XNormalize ==
    /\ x_pc = "start"
    /\ x_pc' = "once"
    /\ x_once' = NormalizeCandidateText(x_value, x_base)
    /\ UNCHANGED <<x_value, x_base, x_twice>>
    /\ UNCHANGED <<rvars, cvars, pvars, nvars, wvars, kvars, mvars>>

XNormalizeAgain ==
    /\ x_pc = "once"
    /\ x_once.kind = "url"
    /\ x_pc' = "twice"
    /\ x_twice' = NormalizeCandidateText(x_once.text, x_base)
    /\ UNCHANGED <<x_value, x_base, x_once>>
    /\ UNCHANGED <<rvars, cvars, pvars, nvars, wvars, kvars, mvars>>

XNext == XNormalize \/ XNormalizeAgain

(***************************************************************************)
(* normalize_url, is_pin_url, is_profile_url, _extract_pin_id of one text  *)
(***************************************************************************)
KClassified(normalized) ==
    /\ k_normalized' = normalized
    /\ k_class' = Classify(UrlParse(normalized))
    /\ k_pin_id' = ExtractPinId(normalized)

KClassify ==
    /\ k_pc = "start"
    /\ k_pc' = "done"
    /\ \E normalized \in {NormalizeUrl(KRaw)} : KClassified(normalized)
    /\ UNCHANGED <<k_scheme, k_host, k_path>>
    /\ UNCHANGED <<rvars, cvars, pvars, nvars, wvars, xvars, mvars>>

(***************************************************************************)
(* MainWindow._start_download and the slots of one batch                   *)
(***************************************************************************)
\* the batch _start_download creates: the first one not yet made
NextBatch(batch) ==
    /\ m_thread[batch] = "new"
    /\ \A b \in 1..(batch - 1) : m_thread[b] # "new"

\* lines 314-367 for a click on the enabled Start button with a valid URL and
\* a usable folder; the early returns of lines 316, 324 and 334 change nothing
MStartDownload ==
    /\ m_start_enabled
    /\ ~m_modal
    /\ ~(m_worker_thread # 0 /\ IsRunning(m_worker_thread))
    /\ \E batch \in BATCHES :
          /\ NextBatch(batch)
          /\ m_worker_thread' = batch
          /\ m_worker' = batch
          /\ m_thread' = [m_thread EXCEPT ![batch] = "running"]
    /\ m_start_enabled' = FALSE
    /\ UNCHANGED <<m_run, m_calls, m_modal>>
    /\ UNCHANGED <<rvars, cvars, pvars, nvars, wvars, xvars, kvars>>

\* line 354: the started thread calls DownloadWorker.run
MRunBegins ==
    /\ \E batch \in BATCHES :
          /\ m_thread[batch] = "running"
          /\ m_run[batch] = "waiting"
          /\ m_run' = [m_run EXCEPT ![batch] = "executing"]
    /\ UNCHANGED <<m_worker_thread, m_worker, m_start_enabled, m_thread, m_calls, m_modal>>
    /\ UNCHANGED <<rvars, cvars, pvars, nvars, wvars, xvars, kvars>>

\* download_worker.py lines 120 and 122: run emits completed or crashed as its
\* last statement; lines 358-362 queue the handler and then quit for the
\* window's thread
MRunEnds ==
    /\ \E batch \in BATCHES, handler \in {"_handle_completed", "_handle_crash"} :
          /\ m_run[batch] = "executing"
          /\ m_run' = [m_run EXCEPT ![batch] = "ended"]
          /\ m_calls' = m_calls \o << Call(handler, batch), Call("quit", batch) >>
    /\ UNCHANGED <<m_worker_thread, m_worker, m_start_enabled, m_thread, m_modal>>
    /\ UNCHANGED <<rvars, cvars, pvars, nvars, wvars, xvars, kvars>>

\* lines 466-467: _handle_completed enables the controls
MHandleCompleted ==
    /\ m_start_enabled' = TRUE
    /\ UNCHANGED <<m_worker_thread, m_worker, m_thread, m_modal>>

\* lines 488-492: _handle_crash enables the controls and opens a modal box
MHandleCrash ==
    /\ m_start_enabled' = TRUE
    /\ m_modal' = TRUE
    /\ UNCHANGED <<m_worker_thread, m_worker, m_thread>>

\* QThread.quit: the event loop of the thread is told to end
MQuit(batch) ==
    /\ m_thread' = [m_thread EXCEPT ![batch] = "quitting"]
    /\ UNCHANGED <<m_worker_thread, m_worker, m_start_enabled, m_modal>>

\* lines 494-496
MCleanupWorkerReferences ==
    /\ m_worker' = 0
    /\ m_worker_thread' = 0
    /\ UNCHANGED <<m_start_enabled, m_thread, m_modal>>

MCall(call) ==
    CASE call.slot = "_handle_completed" -> MHandleCompleted
      [] call.slot = "_handle_crash" -> MHandleCrash
      [] call.slot = "quit" -> MQuit(call.batch)
      [] OTHER -> MCleanupWorkerReferences

\* the window's thread runs the oldest queued call; the event loop of an open
\* message box does so too
MDeliver ==
    /\ Len(m_calls) > 0
    /\ m_calls' = Tail(m_calls)
    /\ MCall(Head(m_calls))
    /\ UNCHANGED m_run
    /\ UNCHANGED <<rvars, cvars, pvars, nvars, wvars, xvars, kvars>>

\* the user closes the message box of _handle_crash
MCloseMessageBox ==
    /\ m_modal
    /\ m_modal' = FALSE
    /\ UNCHANGED <<m_worker_thread, m_worker, m_start_enabled, m_thread, m_run, m_calls>>
    /\ UNCHANGED <<rvars, cvars, pvars, nvars, wvars, xvars, kvars>>

\* the thread leaves its event loop: isRunning() is false from here on, and
\* finished queues _cleanup_worker_references (line 365)
MThreadFinished ==
    /\ \E batch \in BATCHES :
          /\ m_thread[batch] = "quitting"
          /\ m_thread' = [m_thread EXCEPT ![batch] = "finished"]
          /\ m_calls' = Append(m_calls, Call("_cleanup_worker_references", batch))
    /\ UNCHANGED <<m_worker_thread, m_worker, m_start_enabled, m_run, m_modal>>
    /\ UNCHANGED <<rvars, cvars, pvars, nvars, wvars, xvars, kvars>>

MNext ==
    \/ MStartDownload
    \/ MRunBegins
    \/ MRunEnds
    \/ MDeliver
    \/ MCloseMessageBox
    \/ MThreadFinished

(***************************************************************************)
(* The specifications                                                      *)
(***************************************************************************)
vars == <<rvars, cvars, pvars, nvars, wvars, xvars, kvars, mvars>>

ResolverInit == RInit /\ CIdle /\ PIdle /\ NIdle /\ WIdle /\ XIdle /\ KIdle /\ MIdle

CollectorInit == CInit /\ RIdle /\ PIdle /\ NIdle /\ WIdle /\ XIdle /\ KIdle /\ MIdle

ParseInit == PInit /\ RIdle /\ CIdle /\ NIdle /\ WIdle /\ XIdle /\ KIdle /\ MIdle

UsernameInit == NInit /\ RIdle /\ CIdle /\ PIdle /\ WIdle /\ XIdle /\ KIdle /\ MIdle

WorkerInit == WInit /\ RIdle /\ CIdle /\ PIdle /\ NIdle /\ XIdle /\ KIdle /\ MIdle

\* one resolve_media_candidates call
SpecResolver == ResolverInit /\ [][RNext]_vars

\* one collect_profile_pin_urls call
SpecCollector == CollectorInit /\ [][CNext]_vars

\* the same call when every step that can be taken is taken: each request is
\* answered and the interpreter keeps running
LiveCollector == CollectorInit /\ [][CNext]_vars /\ WF_vars(CNext)


\* one parse_url_lines call
SpecParse == ParseInit /\ [][PNext]_vars

\* one extract_profile_username call
SpecUsername == UsernameInit /\ [][NExtract]_vars

\* one DownloadWorker.run with stop() called at any moment or never
SpecWorker == WorkerInit /\ [][WNext]_vars

NormalizeInit == XInit /\ RIdle /\ CIdle /\ PIdle /\ NIdle /\ WIdle /\ KIdle /\ MIdle

ClassifyInit == KInit /\ RIdle /\ CIdle /\ PIdle /\ NIdle /\ WIdle /\ XIdle /\ MIdle

WindowInit == MInit /\ RIdle /\ CIdle /\ PIdle /\ NIdle /\ WIdle /\ XIdle /\ KIdle

\* _normalize_candidate applied to a raw string and to its own result
SpecNormalize == NormalizeInit /\ [][XNext]_vars

\* one input text normalized and classified
SpecClassify == ClassifyInit /\ [][KClassify]_vars

\* one MainWindow: clicks on Start, the worker threads, the queued slots
SpecWindow == WindowInit /\ [][MNext]_vars
(***************************************************************************)
(* Properties of resolve_media_candidates                                  *)
(***************************************************************************)
SameKey(a, b) == a.media_type = b.media_type /\ a.url = b.url

\* C1: every list the resolver returns, by whichever strategy, is ordered by
\* non-increasing quality_score and holds no two candidates with the same
\* (media_type, url); of the candidates built with one (media_type, url) the one
\* in the list has the highest score.
C1_SortedDedupedHighestKept ==
    r_pc = "returned" =>
        /\ \A i, j \in 1..Len(r_result) :
              i < j => r_result[i].quality_score >= r_result[j].quality_score
        /\ \A i, j \in 1..Len(r_result) : i # j => ~SameKey(r_result[i], r_result[j])
        /\ \A i \in 1..Len(r_result) : \A f \in r_found :
              SameKey(f, r_result[i]) => f.quality_score <= r_result[i].quality_score

\* a returned list of several candidates, one of which was also built with a
\* lower score
C1_DuplicateWithLowerScoreDropped ==
    /\ r_pc = "returned"
    /\ Len(r_result) >= 2
    /\ \E i \in 1..Len(r_result) : \E f \in r_found :
          SameKey(f, r_result[i]) /\ f.quality_score < r_result[i].quality_score

\* an image on a pinimg host whose first path segment is a resize marker
IsResizedImage(item) ==
    /\ item.media_type = "image"
    /\ IsPinimgHost(item.url.netloc)
    /\ Len(Segments(item.url.path)) > 0
    /\ Segments(item.url.path)[1] # <<"o","r","i","g","i","n","a","l","s">>
    /\ SizeSegmentMatch(Segments(item.url.path)[1])

\* the same URL with the first path segment replaced by originals
OriginalsOf(url) ==
    [url EXCEPT !.path = <<"/">> \o JoinSlash(<< <<"o","r","i","g","i","n","a","l","s">> >> \o Tail(Segments(url.path)))]

\* C2: for every resized first-party CDN image in the returned list, the list
\* also holds the same URL with the resize marker replaced by originals, and
\* that candidate stands ahead of the resized one.
C2_OriginalsAheadOfResized ==
    r_pc = "returned" =>
        \A i \in 1..Len(r_result) :
            IsResizedImage(r_result[i]) =>
                \E j \in 1..(i - 1) :
                    /\ r_result[j].media_type = "image"
                    /\ r_result[j].url = OriginalsOf(r_result[i].url)

\* C3: in every returned list each video candidate has a strictly higher
\* quality_score than each image candidate.
C3_VideoOutranksImage ==
    r_pc = "returned" =>
        \A i, j \in 1..Len(r_result) :
            r_result[i].media_type = "video" /\ r_result[j].media_type = "image"
                => r_result[i].quality_score > r_result[j].quality_score

ALL_STRATEGIES == {"direct", "redirect", "api", "html"}

\* C4: a call never returns an empty list, and a call in which the direct, the
\* redirect, the API and the HTML/oEmbed strategy all ended without a candidate
\* raises ResolutionError.
C4_NeverEmptyResult ==
    /\ r_pc = "returned" => Len(r_result) >= 1
    /\ r_empty = ALL_STRATEGIES => r_pc = "raised" /\ r_error = "ResolutionError"

\* every strategy was tried, none gave a candidate, the call has failed
C4_AllStrategiesEmpty ==
    /\ r_pc = "raised"
    /\ r_error = "ResolutionError"
    /\ r_empty = ALL_STRATEGIES
    /\ r_requests = << "page", "api", "oembed" >>

(***************************************************************************)
(* Properties of collect_profile_pin_urls                                  *)
(***************************************************************************)
Terminated == c_pc \in {"returned", "raised"}

\* C5: within one call every POST sends a bookmark that no earlier POST of the
\* call has sent, and once the bookmark in hand is one already sent, no further
\* request is issued and the call ends.
C5_NoBookmarkSentTwice ==
    [][ /\ c_sent' # c_sent =>
              /\ Len(c_sent') = Len(c_sent) + 1
              /\ SubSeq(c_sent', 1, Len(c_sent)) = c_sent
              /\ c_sent'[Len(c_sent')] \notin Range(c_sent)
        /\ (c_pc = "loop" /\ IsStr(c_bookmark) /\ StrText(c_bookmark) \in Range(c_sent)) =>
              (c_sent' = c_sent /\ Terminated') ]_vars

\* two requests were sent, the second answer named a bookmark already sent,
\* and the call returned
C5_RepeatedBookmarkEndsLoop ==
    /\ c_pc = "returned"
    /\ Len(c_sent) >= 2
    /\ IsStr(c_bookmark)
    /\ StrText(c_bookmark) \in Range(c_sent)

\* C6: when every request is answered and the bookmarks come from a finite
\* set, the call eventually returns or fails, whatever max_pins is.
C6_CollectionTerminates == <>Terminated

\* the answer to the first request repeats the bookmark of the initial page,
\* max_pins sets no limit, and the call returned after that one request
C6_SameBookmarkStopsAfterPageOne ==
    /\ c_pc = "returned"
    /\ c_max_pins <= 0
    /\ Len(c_sent) = 1
    /\ IsStr(c_bookmark)
    /\ StrText(c_bookmark) = c_sent[1]

\* C7: discovered_count of a result is the number of distinct pins collected
\* before the truncation to max_pins, so it exceeds len(pin_urls) when more
\* than max_pins distinct pins were collected.
C7_DiscoveredCountBeforeTruncation ==
    c_pc = "returned" =>
        /\ c_result.discovered_count = Len(DedupeUrls(c_collected))
        /\ (c_max_pins > 0 /\ Len(DedupeUrls(c_collected)) > c_max_pins) =>
              c_result.discovered_count > Len(c_result.pin_urls)

\* where a URL is first seen among the collected ones
FirstSeenAt(url) ==
    Min({k \in 1..Len(c_collected) : WithoutQueryAndFragment(c_collected[k]) = url})

\* C8: a returned pin_urls is not empty, holds no two entries that are equal
\* once query and fragment are ignored, lists collected pins in the order they
\* were first seen, and is no longer than max_pins when max_pins > 0.
C8_PinUrlsDedupedOrderedCapped ==
    c_pc = "returned" =>
        /\ Len(c_result.pin_urls) >= 1
        /\ \A i, j \in 1..Len(c_result.pin_urls) :
              i # j => WithoutQueryAndFragment(c_result.pin_urls[i])
                          # WithoutQueryAndFragment(c_result.pin_urls[j])
        /\ \A i \in 1..Len(c_result.pin_urls) :
              \E k \in 1..Len(c_collected) :
                  WithoutQueryAndFragment(c_collected[k]) = c_result.pin_urls[i]
        /\ \A i, j \in 1..Len(c_result.pin_urls) :
              i < j => FirstSeenAt(c_result.pin_urls[i]) < FirstSeenAt(c_result.pin_urls[j])
        /\ c_max_pins > 0 => Len(c_result.pin_urls) <= c_max_pins

\* a result cut to max_pins, made from a collection that held a pin twice
C8_TruncatedResultWithDuplicates ==
    /\ c_pc = "returned"
    /\ c_max_pins > 0
    /\ Len(c_result.pin_urls) = c_max_pins
    /\ Cardinality(Range(c_collected)) > c_max_pins
    /\ Len(c_collected) > Cardinality(Range(c_collected))

\* C9: when the fetched page holds no initial-props script, or one that is not
\* a JSON object, the call fails only if the page text holds no /pin/<digits>/
\* reference.
C9_FallbackWithoutInitialProps ==
    (c_pc = "raised" /\ (c_page.script # "json" \/ ~IsDict(c_page.payload))) =>
        Len(PinPathFindAll(c_page.text)) = 0

\* C10: once the initial payload has yielded a pin the call does not fail,
\* whatever the later pagination requests bring.
C10_NoFailureAfterFirstPin ==
    c_pc = "raised" => Len(c_initial) = 0

\* the answer is a 403, or a body that is not JSON under a status that
\* raise_for_status lets through
IsEndOfPagesAnswer(answer) ==
    \/ answer.status = 403
    \/ (answer.kind = "text" /\ ~RaiseForStatus(answer.status))

C15_SecondaryCallsRaiseOnlyResolutionError ==
    ( /\ r_pc = "raised"
      /\ r_requests # <<>>
      /\ r_requests[Len(r_requests)] \in {"api", "oembed"} )
        => r_error = "ResolutionError"

(***************************************************************************)
(* Properties of parse_url_lines                                           *)
(***************************************************************************)
\* the trimmed line holds a blank: no URL does
HasInnerBlank(item) == " " \in Range(item)

\* C18: every malformed line is reported as invalid and never as valid: a
\* line with a blank inside it, such as "not a url###", is in the invalid list
\* and its normalized form is not in the valid list, and the five-line example
\* gives exactly one invalid entry.
C18_MalformedLinesReportedInvalid ==
    p_pc = "returned" =>
        /\ \A i \in 1..Len(p_lines) :
              HasInnerBlank(Strip(p_lines[i])) =>
                  /\ Strip(p_lines[i]) \in Range(p_invalid)
                  /\ NormalizeUrl(p_lines[i]) \notin Range(p_valid)
        /\ p_lines = EXAMPLE_LINES => Len(p_invalid) = 1

\* the lines the loop has taken that are not blank
TakenLines == {i \in 1..p_at : Len(Strip(p_lines[i])) > 0}

\* the first line whose normalized form, or whose trimmed text, is the entry
FirstLineNormalizedTo(entry) ==
    CHOOSE i \in TakenLines :
        /\ NormalizeUrl(p_lines[i]) = entry
        /\ \A j \in TakenLines : NormalizeUrl(p_lines[j]) = entry => i <= j

FirstLineTrimmedTo(entry) ==
    CHOOSE i \in TakenLines :
        /\ Strip(p_lines[i]) = entry
        /\ \A j \in TakenLines : Strip(p_lines[j]) = entry => i <= j

\* position a of the list is the first one with its value
IsFirstIn(list, a) == \A k \in 1..(a - 1) : list[k] # list[a]

\* C19: no line is dropped silently: every line taken that is not blank has
\* its normalized form in the valid list or its trimmed text in the invalid
\* list, never both; every entry of either list stems from a line; the valid
\* list holds no duplicate; and both lists keep the order in which their
\* entries first occur in the text.
C19_EveryLineAccountedFor ==
    /\ \A i \in TakenLines :
          (NormalizeUrl(p_lines[i]) \in Range(p_valid))
              # (Strip(p_lines[i]) \in Range(p_invalid))
    /\ \A a \in 1..Len(p_valid) : \E i \in TakenLines : NormalizeUrl(p_lines[i]) = p_valid[a]
    /\ \A a \in 1..Len(p_invalid) : \E i \in TakenLines : Strip(p_lines[i]) = p_invalid[a]
    /\ \A a, b \in 1..Len(p_valid) : p_valid[a] = p_valid[b] => a = b
    /\ \A a, b \in 1..Len(p_valid) :
          a < b => FirstLineNormalizedTo(p_valid[a]) < FirstLineNormalizedTo(p_valid[b])
    /\ \A a, b \in 1..Len(p_invalid) :
          (a < b /\ IsFirstIn(p_invalid, a) /\ IsFirstIn(p_invalid, b)) =>
              FirstLineTrimmedTo(p_invalid[a]) < FirstLineTrimmedTo(p_invalid[b])

\* the call returned a valid URL and an invalid entry, and a line that
\* repeats the valid URL in another spelling added nothing
C19_DuplicateDroppedInvalidKept ==
    /\ p_pc = "returned"
    /\ Len(p_valid) >= 1
    /\ Len(p_invalid) >= 1
    /\ Cardinality(TakenLines) > Len(p_valid) + Len(p_invalid)

(***************************************************************************)
(* Properties of extract_profile_username                                  *)
(***************************************************************************)
\* one of the conditions under which lines 53-66 return None holds
ReturnsNone(host, segments) ==
    \/ ~IsPinterestHost(host)
    \/ host \in PIN_SHORT_HOSTS
    \/ Len(segments) = 0
    \/ Lower(Strip(segments[1])) \in RESERVED_PROFILE_SEGMENTS
    \/ Lower(Strip(segments[1]))[1] = "_"

\* C20: for every URL the value returned is None or a handle that is not a
\* reserved keyword, is not empty, does not start with an underscore and has no
\* blank around it, whatever the case of the letters of the first path segment
\* and the blanks around it; None comes only from the return None branches.
C20_HandleNeverReserved ==
    n_pc = "returned" =>
        IF n_username = <<>>
        THEN ReturnsNone(Lower(n_url.netloc), Segments(n_url.path))
        ELSE /\ n_username \notin RESERVED_PROFILE_SEGMENTS
             /\ Lower(n_username) = n_username
             /\ Strip(n_username) = n_username
             /\ n_username[1] # "_"
             /\ n_username = Lower(Strip(Segments(n_url.path)[1]))

\* a reserved word in mixed case with a blank on either side gave None
C20_ReservedInMixedCaseWithBlanks ==
    /\ n_pc = "returned"
    /\ n_url = Url("https", <<"w","w","w",".","p","i","n","t","e","r","e","s","t",".","c","o","m">>, <<"/"," ","S","e","a","r","c","h"," ","/","p","i","n","s","/">>)
    /\ n_username = <<>>

(***************************************************************************)
(* Properties of DownloadWorker                                            *)
(***************************************************************************)
\* the positions of the rows emitted for an item with one of the statuses
RowsOf(index, statuses) ==
    {k \in 1..Len(w_events) :
        /\ w_events[k].kind = "row"
        /\ w_events[k].index = index
        /\ w_events[k].status \in statuses}

\* the download calls made for the item in hand that failed
FailedAttempts == {k \in 1..Len(w_attempts) : w_attempts[k].error # ""}

CompletedEvents == {k \in 1..Len(w_events) : w_events[k].kind = "completed"}

\* every row emitted belongs to an item taken before stop() set the flag, and
\* every item set to Processing got its Downloaded or Failed row unless the run
\* crashed
StopSkipsItemsNotTaken ==
    /\ w_stopped.called =>
          \A k \in 1..Len(w_events) :
              w_events[k].kind = "row" => w_events[k].index <= w_stopped.index
    /\ CompletedEvents # {} =>
          \A index \in 1..w_index :
              RowsOf(index, {"Processing"}) # {} => RowsOf(index, {"Downloaded", "Failed"}) # {}

QueuePreparedEvents == {k \in 1..Len(w_events) : w_events[k].kind = "queue_prepared"}

\* the notes that report a failed scan of the source
FailedNotes(source) ==
    {k \in 1..Len(w_notes) : w_notes[k].kind = "failed" /\ w_notes[k].source = source}

\* the queue loop took every source URL and the queue was announced: each
\* source URL was expanded or queued, the pins of each are in the queue, and a
\* failed scan left a note
EverySourceExpandedOrQueued ==
    (QueuePreparedEvents # {} /\ w_i = Len(w_sources)) =>
        /\ Len(w_outcomes) = Len(w_sources)
        /\ \A i \in 1..Len(w_sources) :
              /\ w_outcomes[i].source = w_sources[i]
              /\ w_outcomes[i].error = "" =>
                    /\ Len(w_outcomes[i].pin_urls) > 0
                    /\ Range(w_outcomes[i].pin_urls) \subseteq Range(w_queue)
              /\ w_outcomes[i].error # "" =>
                    /\ w_outcomes[i].error \in EXPANSION_ERRORS
                    /\ FailedNotes(w_sources[i]) # {}
        /\ Range(w_queue) = UNION {Range(w_outcomes[i].pin_urls) : i \in 1..Len(w_outcomes)}

\* a run that completed without cancellation gave every queued pin a
\* Downloaded or Failed row
EveryQueuedPinProcessed ==
    \A k \in CompletedEvents :
        ~w_events[k].cancelled =>
            \A index \in 1..Len(w_queue) : RowsOf(index, {"Downloaded", "Failed"}) # {}

\* C14: a scan that fails with ProfileCollectionError or an exception of
\* requests adds one note and nothing else: the queue loop goes on with the
\* next source URL, so that in a run that is neither stopped nor crashed every
\* other source URL is expanded or queued and every queued pin is processed.
C14_FailedScanLeavesNoteAndGoesOn ==
    [][ /\ EverySourceExpandedOrQueued'
        /\ EveryQueuedPinProcessed'
        /\ ( /\ Len(w_outcomes') = Len(w_outcomes) + 1
             /\ w_outcomes'[Len(w_outcomes')].error \in EXPANSION_ERRORS ) =>
               /\ w_pc' = "build"
               /\ w_i' = w_i + 1
               /\ Len(w_notes') = Len(w_notes) + 1
               /\ w_notes'[Len(w_notes')].kind = "failed"
               /\ w_notes'[Len(w_notes')].source = w_sources[w_i + 1]
               /\ w_expanded' = w_expanded
               /\ w_events' = w_events ]_vars

\* the scan of the first source URL failed, the pin URL after it was queued
\* and downloaded, and the run completed
C14_PinAfterFailedScanDownloaded ==
    /\ w_pc = "done"
    /\ Len(w_sources) = 2
    /\ Len(w_outcomes) = 2
    /\ w_outcomes[1].error = "ProfileCollectionError"
    /\ w_queue = << w_sources[2] >>
    /\ FailedNotes(w_sources[1]) # {}
    /\ RowsOf(1, {"Downloaded"}) # {}
    /\ CompletedEvents # {}

\* completed or crashed
IsTerminalEvent(event) == event.kind \in {"completed", "crashed"}

TerminalEvents == {k \in 1..Len(w_events) : IsTerminalEvent(w_events[k])}

\* C16: a run emits at most one terminal event, nothing after it, and exactly
\* one when it has ended; an exception that reaches run and is not a
\* ResolutionError, a DownloadError or an exception of requests ends the run
\* with crashed and leaves no Failed row for the item in hand, while one of
\* these three gives the item its Failed row and no crashed event.
C16_OneTerminalEventCrashedForOtherErrors ==
    /\ Cardinality(TerminalEvents) <= 1
    /\ TerminalEvents \subseteq {Len(w_events)}
    /\ (w_pc = "done") = (TerminalEvents # {})
    /\ (w_raised # "" /\ w_raised \notin PER_ITEM_ERRORS) =>
          /\ w_pc = "done"
          /\ w_events[Len(w_events)].kind = "crashed"
          /\ RowsOf(w_index, {"Failed", "Downloaded"}) = {}
    /\ (w_raised \in PER_ITEM_ERRORS) =>
          /\ RowsOf(w_index, {"Failed"}) # {}
          /\ \A k \in TerminalEvents : w_events[k].kind = "completed"

\* the first candidate of the item failed, the download of the second one
\* raised OSError, and the run ended with crashed after the Processing row
C16_CrashedOnOsError ==
    /\ w_pc = "done"
    /\ w_raised = "OSError"
    /\ Len(w_attempts) = 2
    /\ w_events[Len(w_events)].kind = "crashed"
    /\ w_events[Len(w_events) - 1] = Row(w_index, "Processing", "", "")

\* the events ahead of the terminal one
BodyLength == Len(w_events) - Cardinality(TerminalEvents)

\* the place of an event in the batch: queue_prepared, progress(0, total),
\* then for item 1, 2, ... a Processing row, a Downloaded or Failed row and
\* progress(item, total)
EventFits(event, place, total) ==
    IF place = 1 THEN event = QueuePrepared(total)
    ELSE IF place = 2 THEN event = Progress(0, total)
    ELSE /\ (place \div 3) <= total
         /\ IF place % 3 = 0
            THEN event = Row(place \div 3, "Processing", "", "")
            ELSE IF place % 3 = 1
            THEN /\ event.kind = "row"
                 /\ event.index = (place - 1) \div 3
                 /\ event.status \in {"Downloaded", "Failed"}
            ELSE event = Progress((place - 2) \div 3, total)

\* every event ahead of the terminal one is in its place
EventsInOrder ==
    /\ TerminalEvents \subseteq {Len(w_events)}
    /\ \A place \in 1..BodyLength : EventFits(w_events[place], place, Len(w_queue))
    /\ \A k \in CompletedEvents : BodyLength >= 2 /\ BodyLength % 3 = 2

\* C17 (as stated): in every run queue_prepared is emitted exactly once and
\* ahead of the rows, and every item set to Processing gets its Downloaded or
\* Failed row and its progress tick ahead of the next item's Processing row.
C17_EveryRunHasTheFullEventOrder ==
    /\ EventsInOrder
    /\ w_pc = "done" => (BodyLength >= 2 /\ BodyLength % 3 = 2)

\* C17: the events are emitted in the order queue_prepared, progress(0, total),
\* then item by item in increasing index a Processing row, one Downloaded or
\* Failed row for the same index and progress(index, total) with index at most
\* total; a run that ends with completed has emitted queue_prepared exactly
\* once and all three events of every item it took, while crashed can end the
\* order at any place, even ahead of queue_prepared.
C17_EventOrderUpToCrash ==
    /\ EventsInOrder
    /\ Cardinality(QueuePreparedEvents) <= 1
    /\ CompletedEvents # {} => Cardinality(QueuePreparedEvents) = 1

\* a completed run over two items, one downloaded and one failed: nine events
C17_TwoItemsCompleted ==
    /\ w_pc = "done"
    /\ CompletedEvents # {}
    /\ Len(w_events) = 9
    /\ RowsOf(1, {"Failed"}) # {}
    /\ RowsOf(2, {"Downloaded"}) # {}

(***************************************************************************)
(* The pagination loop of collect_profile_pin_urls: empty pages, the cap   *)
(***************************************************************************)
\* what _fetch_user_pins_page made of the answer: no row, and a bookmark that
\* is a non-empty string, not the end marker and not among those already sent
IsRowlessPageWithFreshBookmark(got, seen) ==
    /\ got.error = ""
    /\ Len(got.page_data.items) = 0
    /\ CanContinuePagination(got.bookmark, 0, 0)
    /\ ~AlreadySeen(got.bookmark, seen)

\* C26: the loop asks for the next page whenever the cursor is a non-empty,
\* non-terminal string not yet used and the cap is not reached; a page with
\* zero rows and a fresh non-terminal bookmark does not end the pagination,
\* and the cursor advances to that bookmark.
C26_RowlessPageAdvancesCursor ==
    [][ /\ (c_pc = "loop" /\ GoesOn) => c_pc' = c_pc \/ c_sent' # c_sent
        /\ (c_sent' # c_sent
              /\ IsRowlessPageWithFreshBookmark(FetchUserPinsPage(c_last'), c_seen')) =>
               /\ c_pc' = "loop"
               /\ c_bookmark' = FetchUserPinsPage(c_last').bookmark ]_vars

\* the pagination has nothing left to ask for: the cursor is no usable
\* string, or it was already sent (a repeated cursor, or the cursor of a page
\* that came back empty or refused)
PaginationExhausted ==
    \/ ~CanContinuePagination(c_bookmark, 0, 0)
    \/ AlreadySeen(c_bookmark, c_seen)

\* C29: with max_pins > 0, a result of fewer than max_pins items means the
\* pagination was exhausted; the cap never stops the loop while fewer than
\* max_pins distinct items are collected, duplicate rows included.
C29_FewerThanCapMeansExhausted ==
    ( /\ c_pc = "returned"
      /\ c_max_pins > 0
      /\ Len(c_result.pin_urls) < c_max_pins )
        => PaginationExhausted

(***************************************************************************)
(* The order of the strategies of resolve_media_candidates                 *)
(***************************************************************************)
\* no pin id in the final URL, the input URL or the page body
NoPinIdOnPage ==
    /\ ExtractPinId(r_final.path) = <<>>
    /\ ExtractPinId(r_url.path) = <<>>
    /\ ExtractPinId(r_body.pin_text) = <<>>

\* the pin id of lines 105-109 is the one of the final URL, else the one of
\* the input URL, else the one of the page body
PinIdInOrder ==
    IF ExtractPinId(r_final.path) # <<>> THEN r_pin_id = ExtractPinId(r_final.path)
    ELSE IF ExtractPinId(r_url.path) # <<>> THEN r_pin_id = ExtractPinId(r_url.path)
    ELSE r_pin_id = ExtractPinId(r_body.pin_text)

\* C24: the strategies run in the order direct, redirect, pin info endpoint,
\* HTML/oEmbed and the first non-empty one ends the call: the direct fast
\* path sends no request; the redirect fast path sends only the page request;
\* the oEmbed id lookup is sent only when the final URL, the input URL and the
\* body (asked in that order) hold no pin id; when the pin info endpoint
\* yields a candidate, no HTML scraping and no oEmbed media request follows.
C24_StrategiesInOrderFirstHitEnds ==
    /\ "redirect" \in r_empty => "direct" \in r_empty
    /\ "api" \in r_empty => "redirect" \in r_empty
    /\ "html" \in r_empty => "api" \in r_empty
    /\ r_requests # <<>> => ("direct" \in r_empty /\ r_requests[1] = "page")
    /\ (r_pc = "returned" /\ "direct" \notin r_empty) => r_requests = <<>>
    /\ (r_pc = "returned" /\ "direct" \in r_empty /\ "redirect" \notin r_empty) =>
          r_requests = <<"page">>
    /\ r_pc = "oembed_id" => (r_requests = <<"page">> /\ NoPinIdOnPage)
    /\ r_pc = "api" => r_requests \in {<<"page">>, <<"page", "oembed">>}
    /\ (r_pc \in {"oembed_id", "api"} /\ r_requests = <<"page">>) => PinIdInOrder
    /\ (Len(r_requests) >= 2 /\ r_requests[2] = "oembed") => NoPinIdOnPage
    /\ r_pc = "html" =>
          /\ "api" \in r_empty
          /\ r_requests[Len(r_requests)] = "api" =>
                Len(FetchPinApiCandidates(r_last).candidates) = 0
    /\ (r_pc = "returned" /\ "redirect" \in r_empty /\ "api" \notin r_empty) =>
          /\ r_requests[Len(r_requests)] = "api"
          /\ \A c \in r_found : c.source \in {"api-images", "api-videos", "api-story",
                                              "api-fallback"}
    /\ (r_requests # <<>> /\ r_requests[Len(r_requests)] = "api"
          /\ Len(FetchPinApiCandidates(r_last).candidates) > 0
          /\ FetchPinApiCandidates(r_last).error = "") => r_pc = "returned"

\* the final URL and the input URL hold different pin ids and the page body a
\* third one: the id of the final URL was asked for, and the answer of the
\* pin info endpoint ended the call
C24_FinalUrlIdUsedApiEndsCall ==
    /\ r_pc = "returned"
    /\ r_url = U_PIN
    /\ r_final = U_PIN_34
    /\ r_body.pin_text = PIN_TEXT
    /\ r_pin_id = <<"3","4">>
    /\ r_requests = <<"page", "api">>

(***************************************************************************)
(* An image-only answer of the pin info endpoint                           *)
(***************************************************************************)
\* an entry of `images`: a dict whose url is an image URL on i.pinimg.com
IsCdnImageEntry(details) ==
    /\ details.t = "dict"
    /\ DictGet(details, <<"u","r","l">>).t = "str"
    /\ DictGet(details, <<"u","r","l">>).raw.kind = "url"
    /\ DictGet(details, <<"u","r","l">>).raw.url.netloc = H_IMG
    /\ InferMediaType(DictGet(details, <<"u","r","l">>).raw.url) = "image"

\* pin_data has an images dict of such entries and no videos, story_pin_data
\* or is_video
IsImagesOnlyPin(pin_data) ==
    /\ pin_data.t = "dict"
    /\ DictGet(pin_data, <<"i","m","a","g","e","s">>).t = "dict"
    /\ Len(DictGet(pin_data, <<"i","m","a","g","e","s">>).items) > 0
    /\ \A i \in 1..Len(DictGet(pin_data, <<"i","m","a","g","e","s">>).items) :
          IsCdnImageEntry(DictGet(pin_data, <<"i","m","a","g","e","s">>).items[i].v)
    /\ \A i \in 1..Len(pin_data.items) : pin_data.items[i].k = <<"i","m","a","g","e","s">>

\* the pin info endpoint has just answered with an image-only pin
ImagesOnlyAnswered ==
    /\ r_requests # <<>>
    /\ r_requests[Len(r_requests)] = "api"
    /\ r_last.kind = "json"
    /\ r_last.payload.t = "dict"
    /\ IsImagesOnlyPin(FirstPinData(DictGet(r_last.payload, <<"d","a","t","a">>)))

\* the positions of the result that hold the URL of an entry of `images`
ResultPositionsOf(details) ==
    {i \in 1..Len(r_result) : r_result[i].url = DictGet(details, <<"u","r","l">>).raw.url}

HtmlFound ==
    SortAndDedupe(
        HtmlCandidates(ExtractHtmlCandidates(r_body, ExtractLdjsonCandidates(r_body.ldjson)),
                       FetchOembedMediaCandidates(r_last)).candidates)

IsVideoOrMediaHost(item) ==
    \/ item.media_type = "video"
    \/ Lower(item.url.netloc) = H_IMG
    \/ Lower(item.url.netloc) = H_VID

\* the call returned from the HTML fallback
ReturnedFromHtml == r_pc = "returned" /\ "api" \in r_empty

\* C25: the result of the HTML fallback is F restricted to the video
\* candidates and the candidates on i.pinimg.com or v1.pinimg.com, in rank
\* order, when F holds one; otherwise it is all of F. A result of the direct,
\* redirect or API strategy is not filtered: it holds every candidate built.
C25_HostFilterOnlyOnHtmlFallback ==
    /\ ReturnedFromHtml =>
          IF \E i \in 1..Len(HtmlFound) : IsVideoOrMediaHost(HtmlFound[i])
          THEN r_result = SelectSeq(HtmlFound, IsVideoOrMediaHost)
          ELSE r_result = HtmlFound
    /\ (r_pc = "returned" /\ "api" \notin r_empty) =>
          \A c \in r_found :
              \E i \in 1..Len(r_result) :
                  r_result[i].url = c.url /\ r_result[i].media_type = c.media_type

\* the HTML fallback found an image on another host next to CDN media: the
\* result is shorter than F
C25_OtherHostDropped ==
    /\ ReturnedFromHtml
    /\ Len(r_result) < Len(HtmlFound)
    /\ \E i \in 1..Len(HtmlFound) : HtmlFound[i].url = U_EXTERNAL

(***************************************************************************)
(* _normalize_candidate applied twice                                      *)
(***************************************************************************)
\* C22: when _normalize_candidate(x, b) returns a URL u, then
\* _normalize_candidate(u, b) returns u.
C22_NormalizeCandidateIdempotent ==
    x_pc = "twice" => x_twice = x_once

(***************************************************************************)
(* A schemeless pin line                                                   *)
(***************************************************************************)
\* the raw text is <platform host>/pin/<digits>/ without a scheme
IsSchemelessPinText ==
    /\ k_scheme = <<>>
    /\ k_host \in PLATFORM_HOSTS
    /\ \E digits \in PIN_DIGITS : k_path = <<"/","p","i","n","/">> \o digits \o <<"/">>

\* C21: for a schemeless text <platform host>/pin/<digits>/, normalize_url
\* gives "https://" followed by the text, is_pin_url holds, is_profile_url
\* does not, and the pin id extracted is <digits>; and no text at all is both
\* a pin URL and a profile URL.
C21_SchemelessPinTextIsPinWithItsId ==
    k_pc = "done" =>
        /\ ~(k_class.is_pin /\ k_class.is_profile)
        /\ IsSchemelessPinText =>
              /\ k_normalized = <<"h","t","t","p","s",":","/","/">> \o KRaw
              /\ ~k_class.error
              /\ k_class.is_pin
              /\ ~k_class.is_profile
              /\ <<"/","p","i","n","/">> \o k_pin_id \o <<"/">> = k_path

\* the example text pinterest.com/pin/123456789012345678/ was classified
C21_ExampleTextClassified ==
    /\ k_pc = "done"
    /\ KRaw = <<"p","i","n","t","e","r","e","s","t",".","c","o","m","/","p","i","n","/","1","2","3","4","5","6","7","8","9","0","1","2","3","4","5","6","7","8","/">>
    /\ k_class.is_pin
    /\ k_pin_id = <<"1","2","3","4","5","6","7","8","9","0","1","2","3","4","5","6","7","8">>

(***************************************************************************)
(* The batches of one window                                               *)
(***************************************************************************)
\* the batches whose thread is running or whose run is executing
RunningBatches == {b \in BATCHES : IsRunning(b) \/ m_run[b] = "executing"}

\* at most one DownloadWorker.run executes at a time
AtMostOneRunExecuting ==
    Cardinality({b \in BATCHES : m_run[b] = "executing"}) <= 1

\* C28: at most one DownloadWorker.run executes at any time, and while a
\* batch is running self.worker and self.worker_thread are those of that
\* batch, whatever the order of Start clicks, completed/crashed handlers and
\* _cleanup_worker_references calls.
C28_OneRunAndReferencesOfRunningBatch ==
    /\ AtMostOneRunExecuting
    /\ \A b \in RunningBatches : m_worker = b /\ m_worker_thread = b

(***************************************************************************)
(* The summary and the queue of one DownloadWorker.run                     *)
(***************************************************************************)
\* the positions of the row_updated signals with the status given
RowsWithStatus(status) ==
    {j \in 1..Len(w_events) : w_events[j].kind = "row" /\ w_events[j].status = status}

\* the totals announced by queue_prepared
PreparedTotals ==
    {w_events[j].total : j \in {i \in 1..Len(w_events) : w_events[i].kind = "queue_prepared"}}

IsAccountedFor(event) ==
    /\ event.success = Cardinality(RowsWithStatus("Downloaded"))
    /\ event.failed = Cardinality(RowsWithStatus("Failed"))
    /\ PreparedTotals = {event.total}
    /\ event.total = Len(w_queue)
    /\ event.success + event.failed <= event.total
    /\ (~event.cancelled => event.success + event.failed = event.total)

\* C27: in every completed signal, success is the number of Downloaded rows
\* emitted, failed is the number of Failed rows emitted, total is the length
\* of the prepared queue, success + failed <= total, and success + failed =
\* total when cancelled is false.
C27_CompletedSummaryAccounting ==
    \A k \in 1..Len(w_events) :
        w_events[k].kind = "completed" => IsAccountedFor(w_events[k])

\* a batch that was not cancelled ended with one file saved and one item failed
C27_OneSavedOneFailedCompleted ==
    /\ w_pc = "done"
    /\ Len(w_events) > 0
    /\ w_events[Len(w_events)] = Completed(Summary(2, 1, 1, FALSE))
    /\ Cardinality(RowsWithStatus("Downloaded")) = 1
    /\ Cardinality(RowsWithStatus("Failed")) = 1

\* the text of a queue entry
EntryText(url) == UrlUnsplit(url.scheme, url.netloc, url.path, url.query, url.fragment)

\* the pin an entry of the queue denotes
PinIdOfEntry(url) == ExtractPinId(EntryText(url))

\* C30: the queue announced by queue_prepared never holds two entries that
\* denote the same pin id, also when a pin is listed directly in another
\* accepted spelling and is discovered through an account expansion as well.
C30_QueueHoldsEachPinOnce ==
    \A i, j \in 1..Len(w_queue) :
        PinIdOfEntry(w_queue[i]) = PinIdOfEntry(w_queue[j]) => i = j
====
